---- MODULE Spec2Model ----
(***************************************************************************)
(* Model of the pi extensions.  The subagent model selector                *)
(* (model-selection.ts): the tier pattern tables, scoring, version         *)
(* extraction, the tie-break chain of resolveBestAvailable and             *)
(* selectSubagentModel, with its earlier variant that sums scores and the  *)
(* tier estimation of both.  The /ad-name command and the auto-naming      *)
(* hook, the read tool override, the spinner of the subagent tools and     *)
(* web_fetch.  Each component has its own variables and specification.     *)
(*                                                                         *)
(* Model ids and provider names are TLA+ strings; the regular expressions  *)
(* of the source are operators over the characters of those strings.       *)
(***************************************************************************)
EXTENDS Integers, Sequences, FiniteSets, TLC

VARIABLES
    supplied,       \* the candidate pool supplied to the call in progress: the
                    \* entries of ctx.modelRegistry when it was issued
    called,         \* TRUE once a call of selectSubagentModel has completed
    available,      \* ctx.modelRegistry.getAvailable(): sequence of models
    tier,           \* input.tier
    inputLevel,     \* input.thinkingLevel, or NoLevel when absent
    pc,             \* position of the call: "idle" (no call), "call", "loop",
                    \* "done", "threw"
    i,              \* number of candidates of `available` already processed
    best,           \* running best of resolveBestAvailable (null = NoModel)
    bestScore,      \* its score (NEGATIVE_INFINITY before the first candidate)
    thinkingLevel,  \* the const thinkingLevel of selectSubagentModel
    result,         \* the SelectedModel returned (NoResult before return)
    vStem,          \* version extraction: the id is vStem \o vTail
    vTail,
    vFamily,        \* the extractor: "opus" | "sonnet" | "haiku" | "gpt"
    vPc,            \* "start" before the extractor has run, "done" after
    vOut,           \* the number[] | null returned (NoVersion = null)
    cmpA,           \* compareVersionParts: three arguments (number[] | null)
    cmpB,
    cmpC,
    cmpPc,          \* "start" before the comparisons, "done" after
    cmpOut,         \* the values returned for the pairs of cmpA, cmpB, cmpC
    sessionName,    \* pi.getSessionName() (Undefined when the session has none)
    entries,        \* ctx.sessionManager.getEntries()
    llm,            \* what title generation meets: a model, an API key, a reply
    cmdArgs,        \* /ad-name: the args of the command being handled
    cmdPc,          \* /ad-name: "idle", "run", "generating" (at the await), "done"
    cmdText,        \* /ad-name: the handler's firstUserText
    nameBefore,     \* /ad-name: the session name when the command was entered
    notice,         \* the last ctx.ui.notify(text, level)
    rdParams,       \* read tool: params of the call (path, file_path, file)
    rdKind,         \* read tool: what the resolved path is on the file system
    rdPc,           \* read tool: "idle", "run", "lstat", "native", "done"
    rdPath,         \* read tool: pathValue
    rdIsDir,        \* read tool: stat.isDirectory() (FALSE when lstat threw)
    rdWarned,       \* read tool: console.warn was called
    rdNotice,       \* read tool: the ctx.ui.notify text ("" when none)
    nativeCalls,    \* read tool: the native tools executed, with their path
    rdOutcome,      \* read tool: what the call returned or threw
    pvTokens,       \* parseVersionParts: the tokens of the argument
    pvSeps,         \* parseVersionParts: the separators between them
    pvIn,           \* parseVersionParts: the argument v
    pvPc,           \* parseVersionParts: "idle", "call", "done"
    pvOut,          \* parseVersionParts: the number[] returned
    oldAvailable,   \* earlier variant: ctx.modelRegistry.getAvailable()
    oldTier,        \* earlier variant: the tier passed to resolveBestAvailable
    oldPc,          \* earlier variant: "idle", "call", "done", "threw"
    oldBest,        \* earlier variant: the model returned (NoModel before)
    etFn,           \* tier estimation: the function called
    etSubagent,     \* tier estimation: input.subagent
    etMessage,      \* tier estimation: input.userMessage, or the oracle task
    etPc,           \* tier estimation: "idle", "call", "done"
    etTier,         \* tier estimation: the tier returned ("none" before)
    hasAutoNamed,   \* session-name hook: state.hasAutoNamed
    hookPending,    \* session-name hook: the generateTitle calls awaited, with their outcome
    genStarted,     \* title generations started since the last reset
    settled,        \* a turn_end handler finished an attempt or found a name since the last reset
    hookSetOver,    \* the session name in place when the hook last called setSessionName
    spTool,         \* subagent tool: "oracle" or "reviewer"
    spArgs,         \* subagent tool: whether args carry a diff, files
    spAvailable,    \* subagent tool: ctx.modelRegistry.getAvailable()
    spPc,           \* subagent tool: "idle", "run", "files", "subagent", "settled"
    spInterval,     \* subagent tool: the spinner interval is set
    spinnerFrame,   \* subagent tool: spinnerFrame
    spRunning,      \* subagent tool: currentToolCalls has a running call
    spStarted,      \* subagent tool: this execution called setInterval
    spOutcome,      \* subagent tool: how execute settled
    spLate,         \* a spinner-driven onUpdate was emitted after execute settled
    wfArg,          \* web_fetch: args.timeoutMs, when given
    wfTimeoutMs,    \* web_fetch: timeoutMs of execute
    wfPc,           \* web_fetch: "idle", "run", "headers", "body", "done"
    wfClock,        \* web_fetch: milliseconds since execute started
    wfArmed,        \* web_fetch: the timeout of fetchWithTimeout is pending
    wfListener,     \* web_fetch: onAbort is registered on the caller signal
    wfSignalAborted,\* web_fetch: the caller signal is aborted
    wfAborted,      \* web_fetch: controller.signal is aborted
    wfOk,           \* web_fetch: response.ok
    wfResult        \* web_fetch: what execute returned

vars == <<supplied, called, available, tier, inputLevel, pc, i, best, bestScore, thinkingLevel,
          result, vStem, vTail, vFamily, vPc, vOut,
          cmpA, cmpB, cmpC, cmpPc, cmpOut,
          sessionName, entries, llm, cmdArgs, cmdPc, cmdText, nameBefore, notice,
          rdParams, rdKind, rdPc, rdPath, rdIsDir, rdWarned, rdNotice,
          nativeCalls, rdOutcome,
          pvTokens, pvSeps, pvIn, pvPc, pvOut,
          oldAvailable, oldTier, oldPc, oldBest,
          etFn, etSubagent, etMessage, etPc, etTier,
          hasAutoNamed, hookPending, genStarted, settled, hookSetOver,
          spTool, spArgs, spAvailable, spPc, spInterval, spinnerFrame, spRunning, spStarted, spOutcome, spLate,
          wfArg, wfTimeoutMs, wfPc, wfClock, wfArmed, wfListener, wfSignalAborted, wfAborted, wfOk, wfResult>>

selVars == <<supplied, called, available, tier, inputLevel, pc, i, best, bestScore, thinkingLevel,
             result>>
verVars == <<vStem, vTail, vFamily, vPc, vOut>>
cmpVars == <<cmpA, cmpB, cmpC, cmpPc, cmpOut>>
nameVars == <<sessionName, entries, llm, cmdArgs, cmdPc, cmdText, nameBefore,
              notice>>

readVars == <<rdParams, rdKind, rdPc, rdPath, rdIsDir, rdWarned, rdNotice,
              nativeCalls, rdOutcome>>

parseVars == <<pvTokens, pvSeps, pvIn, pvPc, pvOut>>

earlierVars == <<oldAvailable, oldTier, oldPc, oldBest>>

tierVars == <<etFn, etSubagent, etMessage, etPc, etTier>>

hookVars == <<hasAutoNamed, hookPending, genStarted, settled, hookSetOver>>

spinVars == <<spTool, spArgs, spAvailable, spPc, spInterval, spinnerFrame, spRunning, spStarted, spOutcome, spLate>>

fetchVars == <<wfArg, wfTimeoutMs, wfPc, wfClock, wfArmed, wfListener, wfSignalAborted, wfAborted, wfOk, wfResult>>

\* What the steps of one component leave alone: the other components.
notNameNorHookVars == <<selVars, verVars, cmpVars, readVars, parseVars, earlierVars, tierVars, spinVars, fetchVars>>
notSelVars == <<verVars, cmpVars, nameVars, readVars, parseVars, earlierVars, tierVars, hookVars, spinVars, fetchVars>>
notVerVars == <<selVars, cmpVars, nameVars, readVars, parseVars, earlierVars, tierVars, hookVars, spinVars, fetchVars>>
notCmpVars == <<selVars, verVars, nameVars, readVars, parseVars, earlierVars, tierVars, hookVars, spinVars, fetchVars>>
notNameVars == <<selVars, verVars, cmpVars, readVars, parseVars, earlierVars, tierVars, hookVars, spinVars, fetchVars>>
notReadVars == <<selVars, verVars, cmpVars, nameVars, parseVars, earlierVars, tierVars, hookVars, spinVars, fetchVars>>
notParseVars == <<verVars, cmpVars, nameVars, readVars, selVars, earlierVars, tierVars, hookVars, spinVars, fetchVars>>
notEarlierVars == <<verVars, cmpVars, nameVars, readVars, parseVars, selVars, tierVars, hookVars, spinVars, fetchVars>>
notTierVars == <<verVars, cmpVars, nameVars, readVars, parseVars, earlierVars, selVars, hookVars, spinVars, fetchVars>>
notHookVars == <<verVars, cmpVars, nameVars, readVars, parseVars, earlierVars, tierVars, selVars, spinVars, fetchVars>>
notSpinVars == <<selVars, verVars, cmpVars, readVars, parseVars, earlierVars, tierVars, nameVars, hookVars, fetchVars>>
notFetchVars == <<selVars, verVars, cmpVars, readVars, parseVars, earlierVars, tierVars, spinVars, nameVars, hookVars>>

-----------------------------------------------------------------------------
(* Characters and strings                                                  *)

LowerLetters == "abcdefghijklmnopqrstuvwxyz"
UpperLetters == "ABCDEFGHIJKLMNOPQRSTUVWXYZ"
Digits == "0123456789"
\* The characters the ids of the model use, in UTF-16 code unit order.
CodeUnitOrder == " -.0123456789:ABCDEFGHIJKLMNOPQRSTUVWXYZ_abcdefghijklmnopqrstuvwxyz"

\* s[p], or the empty string outside the string.
CharAt(s, p) == IF p >= 1 /\ p <= Len(s) THEN SubSeq(s, p, p) ELSE ""

CharsOf(s) == {SubSeq(s, p, p) : p \in 1..Len(s)}

IsDigit(c) == c \in CharsOf(Digits)

DigitValue == [c \in CharsOf(Digits) |->
                 (CHOOSE p \in 1..Len(Digits) : CharAt(Digits, p) = c) - 1]

CodeUnit == [c \in CharsOf(CodeUnitOrder) |->
               CHOOSE p \in 1..Len(CodeUnitOrder) : CharAt(CodeUnitOrder, p) = c]

LowerOf == [c \in CharsOf(CodeUnitOrder) |->
              IF c \in CharsOf(UpperLetters)
              THEN CharAt(LowerLetters,
                          CHOOSE p \in 1..Len(UpperLetters) : CharAt(UpperLetters, p) = c)
              ELSE c]

\* s.toLowerCase(), one half of the string after the other.
RECURSIVE toLowerCase(_)
toLowerCase(s) ==
    IF Len(s) = 0 THEN ""
    ELSE IF Len(s) = 1 THEN LowerOf[s]
    ELSE toLowerCase(SubSeq(s, 1, Len(s) \div 2))
             \o toLowerCase(SubSeq(s, (Len(s) \div 2) + 1, Len(s)))

RECURSIVE StripSpaces(_)
StripSpaces(s) ==
    IF Len(s) = 0 THEN ""
    ELSE IF CharAt(s, 1) = " " THEN StripSpaces(SubSeq(s, 2, Len(s)))
    ELSE CharAt(s, 1) \o StripSpaces(SubSeq(s, 2, Len(s)))

\* id.toLowerCase().replace(/\s+/g, '')
normalizeModelId(id) == StripSpaces(toLowerCase(id))

\* The literal `lit` occurs in s at position p.
LitAt(s, p, lit) ==
    /\ p >= 1
    /\ p + Len(lit) - 1 <= Len(s)
    /\ SubSeq(s, p, p + Len(lit) - 1) = lit

\* The literal occurs somewhere in t.
Occurs(t, lit) == \E p \in 1..Len(t) : LitAt(t, p, lit)

\* /lit/i.test(s) for a lower-case literal.
Includes(s, lit) == Occurs(toLowerCase(s), lit)

\* JavaScript's a < b on strings: lexicographic on code units, a proper
\* prefix being smaller.
RECURSIVE StrLess(_, _)
StrLess(a, b) ==
    IF Len(b) = 0 THEN FALSE
    ELSE IF Len(a) = 0 THEN TRUE
    ELSE IF CharAt(a, 1) = CharAt(b, 1)
         THEN StrLess(SubSeq(a, 2, Len(a)), SubSeq(b, 2, Len(b)))
    ELSE CodeUnit[CharAt(a, 1)] < CodeUnit[CharAt(b, 1)]

-----------------------------------------------------------------------------
(* Tiers and thinking levels                                               *)

ModelTier == {"complex", "standard", "simple"}
ThinkingLevel == {"low", "medium", "high"}
NoLevel == "undefined"

\* Mutant of tierToThinkingLevel: medium for every tier.
tierToThinkingLevelFlat(t) == "medium"

tierToThinkingLevel(t) ==
    CASE t = "complex" -> "high"
      [] t = "standard" -> "medium"
      [] t = "simple" -> "low"

-----------------------------------------------------------------------------
(* Regular expressions of the pattern tables                               *)

TokenSep == {"-", "_", " "}      \* [-_ ]
VersionSep == {".", "_", "-"}    \* [._-]

\* (?:^|[-_ ])word(?:$|[-_ ]) in the lower-cased string t
TokenIn(word, t) ==
    \E p \in 1..Len(t) :
        /\ LitAt(t, p, word)
        /\ (p = 1 \/ CharAt(t, p - 1) \in TokenSep)
        /\ (p + Len(word) > Len(t) \/ CharAt(t, p + Len(word)) \in TokenSep)

\* /(?:^|[-_ ])word(?:$|[-_ ])/i.test(s)
TokenRe(word, s) == TokenIn(word, toLowerCase(s))

\* gpt[-_ ]?5 in the lower-cased string t
Gpt5In(t) ==
    \E p \in 1..Len(t) :
        /\ LitAt(t, p, "gpt")
        /\ \/ LitAt(t, p + 3, "5")
           \/ (CharAt(t, p + 3) \in TokenSep /\ LitAt(t, p + 4, "5"))

\* /gpt[-_ ]?5(?:[._-]\d+)?/i.test(s) and /gpt[-_ ]?5/i.test(s): the optional
\* suffix group never decides whether the expression matches.
Gpt5Re(s) == Gpt5In(toLowerCase(s))

\* gemini.*pro in the lower-cased string t
GeminiProIn(t) ==
    \E p \in 1..Len(t) : \E q \in 1..Len(t) :
        LitAt(t, p, "gemini") /\ q >= p + 6 /\ LitAt(t, q, "pro")

\* /gemini.*pro/i.test(s)
GeminiProRe(s) == GeminiProIn(toLowerCase(s))

ReTest(re, s) ==
    CASE re.type = "token" -> TokenRe(re.word, s)
      [] re.type = "gpt5" -> Gpt5Re(s)
      [] re.type = "geminipro" -> GeminiProRe(s)
      [] re.type = "substr" -> Includes(s, re.word)

\* The ordered pattern list of a tier; `version` names the extractor attached
\* to the pattern ("none" when the pattern has no version()).
tierPatterns(t) ==
    CASE t = "complex" ->
           << [kind |-> "claude-opus", re |-> [type |-> "token", word |-> "opus"],
               version |-> "opus"],
              [kind |-> "gpt-5", re |-> [type |-> "gpt5", word |-> ""],
               version |-> "gpt"],
              [kind |-> "gemini-pro", re |-> [type |-> "geminipro", word |-> ""],
               version |-> "none"] >>
      [] t = "standard" ->
           << [kind |-> "claude-sonnet", re |-> [type |-> "token", word |-> "sonnet"],
               version |-> "sonnet"],
              [kind |-> "gpt-5", re |-> [type |-> "gpt5", word |-> ""],
               version |-> "gpt"],
              [kind |-> "gemini-pro", re |-> [type |-> "geminipro", word |-> ""],
               version |-> "none"] >>
      [] t = "simple" ->
           << [kind |-> "claude-haiku", re |-> [type |-> "token", word |-> "haiku"],
               version |-> "haiku"],
              [kind |-> "gemini-flash", re |-> [type |-> "substr", word |-> "flash"],
               version |-> "none"] >>

\* [/preview/i, /experimental/i, /beta/i]
penaltyPatterns == <<"preview", "experimental", "beta">>

isUnstableModelId(id) ==
    \E k \in 1..Len(penaltyPatterns) : Includes(id, penaltyPatterns[k])

KnownIn(t) == Occurs(t, "openai") \/ Occurs(t, "anthropic") \/ Occurs(t, "google")

\* /openai|anthropic|google/i.test(provider)
isKnownMajorProvider(provider) == KnownIn(toLowerCase(provider))

\* p.re.test(id) || p.re.test(nid)
PatternMatches(p, id) == ReTest(p.re, id) \/ ReTest(p.re, normalizeModelId(id))

\* The indices (0-based, as in the source) of the tier patterns an id matches.
MatchingIndices(id, t) ==
    {idx \in 0..(Len(tierPatterns(t)) - 1) : PatternMatches(tierPatterns(t)[idx + 1], id)}

NoMatch == [idx |-> -1, pattern |-> [kind |-> "none", version |-> "none"]]

\* for (let idx = 0; idx < patterns.length; idx++) ... return { idx, pattern: p }
RECURSIVE MatchFrom(_, _, _)
MatchFrom(id, patterns, idx) ==
    IF idx >= Len(patterns) THEN NoMatch
    ELSE IF PatternMatches(patterns[idx + 1], id)
         THEN [idx |-> idx,
               pattern |-> [kind |-> patterns[idx + 1].kind,
                            version |-> patterns[idx + 1].version]]
    ELSE MatchFrom(id, patterns, idx + 1)

\* The first pattern of the tier that matches id or its normalized form.
bestTierPatternMatch(id, t) == MatchFrom(id, tierPatterns(t), 0)

\* Mutant of ScoreOfMatch: every match scores alike, whatever its priority.
ScoreFlat(match) == IF match = NoMatch THEN 0 ELSE 100

\* if (!match) return 0; return 100 - match.idx * 10
ScoreOfMatch(match) == IF match = NoMatch THEN 0 ELSE 100 - match.idx * 10

RECURSIVE SumScores(_)
SumScores(hits) ==
    IF hits = {} THEN 0
    ELSE LET idx == CHOOSE k \in hits : TRUE
         IN (100 - idx * 10) + SumScores(hits \ {idx})

\* Mutant of scoreModelForTier: the scores of all matching patterns summed.
scoreModelForTierSummed(m, t) == SumScores(MatchingIndices(m.id, t))

scoreModelForTier(m, t) == ScoreOfMatch(bestTierPatternMatch(m.id, t))

-----------------------------------------------------------------------------
(* Version extraction                                                      *)

MinDateDigits == 4
ClaudeAttempts == 3
MinYear == 1900
DateTokenLen == 8

Undefined == "<undefined>"     \* m?.[1] when the expression did not match
NullString == "<null>"         \* sanitizeVersionString's null
NoVersion == <<-1>>            \* a version() result of null
NaN == -1                      \* Number.parseInt of a token without leading digit

\* Last position of the run of digits that starts at p (p - 1 when s[p] is no digit).
RECURSIVE DigitsEnd(_, _)
DigitsEnd(s, p) == IF IsDigit(CharAt(s, p)) THEN DigitsEnd(s, p + 1) ELSE p - 1

\* Greedy (?:[._-]\d+)* from the end e of what is matched so far.
RECURSIVE GroupsEnd(_, _)
GroupsEnd(s, e) ==
    IF CharAt(s, e + 1) \in VersionSep /\ IsDigit(CharAt(s, e + 2))
    THEN GroupsEnd(s, DigitsEnd(s, e + 2))
    ELSE e

\* Last position of the greedy match of (\d+(?:[._-]\d+)*) at p; p - 1 when
\* there is none.
VersionRunEnd(s, p) ==
    IF IsDigit(CharAt(s, p)) THEN GroupsEnd(s, DigitsEnd(s, p)) ELSE p - 1

\* Position after the optional [-_ ]? read at p.
AfterOptSep(t, p) == IF CharAt(t, p) \in TokenSep THEN p + 1 ELSE p
\* Position after the optional v? read at p (t is lower-cased).
AfterOptV(t, p) == IF CharAt(t, p) = "v" THEN p + 1 ELSE p

\* Capture group 1, (\d+(?:[._-]\d+)*), read at q: <<first, last>>, or <<>>
\* when no digit stands at q.
GroupAt(t, q) == IF IsDigit(CharAt(t, q)) THEN <<q, VersionRunEnd(t, q)>> ELSE <<>>

\* The group g, when `lit` stands after the optional [-_ ]? that follows it.
GroupThenLit(t, g, lit) ==
    IF g # <<>> /\ LitAt(t, AfterOptSep(t, g[2] + 1), lit) THEN g ELSE <<>>

\* The three expressions of extractClaudeFamilyVersion and the one of
\* extractGptVersion, tried at start position p of the lower-cased id t. Each
\* gives <<first, last>> of capture group 1, or <<>> when it does not match
\* at p. In every expression only the greedy reading can match: a shorter
\* capture is followed by a digit or by a separator and a digit, which neither
\* [-_ ]? nor the family word accepts.

\* claude[-_ ]?v?(\d+(?:[._-]\d+)*)[-_ ]?family
M1At(t, p, family) ==
    IF LitAt(t, p, "claude")
    THEN GroupThenLit(t, GroupAt(t, AfterOptV(t, AfterOptSep(t, p + 6))), family)
    ELSE <<>>

\* family[-_ ]?v?(\d+(?:[._-]\d+)*), and gpt[-_ ]?v?(\d+(?:[._-]\d+)*) with
\* family = "gpt"
M3At(t, p, family) ==
    IF LitAt(t, p, family)
    THEN GroupAt(t, AfterOptV(t, AfterOptSep(t, p + Len(family))))
    ELSE <<>>

\* claude[-_ ]?family[-_ ]?v?(\d+(?:[._-]\d+)*)
M2At(t, p, family) ==
    IF LitAt(t, p, "claude") THEN M3At(t, AfterOptSep(t, p + 6), family) ELSE <<>>

RegexAt(which, t, p, family) ==
    CASE which = 1 -> M1At(t, p, family)
      [] which = 2 -> M2At(t, p, family)
      [] which = 3 -> M3At(t, p, family)

\* The leftmost match from position p on: its capture group 1 in id, or
\* Undefined when the expression matches nowhere.
RECURSIVE CaptureFrom(_, _, _, _, _)
\* The capture g of a match at p, or the search from p + 1 on.
CaptureAt(g, which, id, t, p, family) ==
    IF g = <<>> THEN CaptureFrom(which, id, t, p + 1, family)
    ELSE SubSeq(id, g[1], g[2])
CaptureFrom(which, id, t, p, family) ==
    IF p > Len(t) THEN Undefined
    ELSE CaptureAt(RegexAt(which, t, p, family), which, id, t, p, family)

\* id.match(re)?.[1]
Capture(which, id, family) == CaptureFrom(which, id, toLowerCase(id), 1, family)

\* s.trim()
RECURSIVE TrimLeft(_)
TrimLeft(s) == IF CharAt(s, 1) = " " THEN TrimLeft(SubSeq(s, 2, Len(s))) ELSE s
RECURSIVE TrimRight(_)
TrimRight(s) ==
    IF CharAt(s, Len(s)) = " " THEN TrimRight(SubSeq(s, 1, Len(s) - 1)) ELSE s
Trim(s) == TrimRight(TrimLeft(s))

\* s.split(/[._-]/).filter(Boolean): the non-empty tokens between separators.
RECURSIVE SplitFrom(_, _, _)
SplitFrom(s, p, cur) ==
    IF p > Len(s) THEN (IF cur = "" THEN <<>> ELSE <<cur>>)
    ELSE IF CharAt(s, p) \in VersionSep
         THEN (IF cur = "" THEN <<>> ELSE <<cur>>) \o SplitFrom(s, p + 1, "")
    ELSE SplitFrom(s, p + 1, cur \o CharAt(s, p))

SplitVersion(s) == SplitFrom(s, 1, "")

\* The value of the digits s[p..e].
RECURSIVE DigitsValue(_, _, _)
DigitsValue(s, p, e) ==
    IF e < p THEN 0 ELSE DigitsValue(s, p, e - 1) * 10 + DigitValue[CharAt(s, e)]

\* Number.parseInt(s, 10): leading white space skipped, then the longest run
\* of digits; NaN when there is none.
ParseLeadingDigits(u, e) == IF e < 1 THEN NaN ELSE DigitsValue(u, 1, e)
ParseTrimmed(u) == ParseLeadingDigits(u, DigitsEnd(u, 1))
parseInt(s) == ParseTrimmed(TrimLeft(s))

AllDigits(s) == \A p \in 1..Len(s) : IsDigit(CharAt(s, p))

\* parts.length >= 2 && Number.isFinite(first) && first >= 1900
LeadingYear(parts) ==
    /\ Len(parts) >= 2
    /\ parseInt(parts[1]) # NaN
    /\ parseInt(parts[1]) >= MinYear

\* sanitizeVersionString once v is trimmed to s
SanitizeTrimmed(s) ==
    IF s = "" THEN NullString
    \* /^[0-9]{4,}$/.test(s) && !/[._-]/.test(s)
    ELSE IF Len(s) >= MinDateDigits /\ AllDigits(s) THEN NullString
    ELSE IF LeadingYear(SplitVersion(s)) THEN NullString
    ELSE s

\* Mutant of sanitizeVersionString: the date guards left out.
sanitizeVersionStringNoGuard(v) ==
    IF v = Undefined \/ v = "" \/ Trim(v) = "" THEN NullString ELSE Trim(v)

sanitizeVersionString(v) ==
    IF v = Undefined \/ v = "" THEN NullString ELSE SanitizeTrimmed(Trim(v))

\* /^(19|20)\d{6}$/.test(p)
IsDateToken(p) ==
    /\ Len(p) = DateTokenLen
    /\ AllDigits(p)
    /\ (LitAt(p, 1, "19") \/ LitAt(p, 1, "20"))

\* out after the token p: the loop body of parseVersionParts past its break.
PushToken(out, n) == IF n = NaN THEN out ELSE Append(out, n)

\* Mutant of the loop of parseVersionParts: the break taken at every date
\* token, also when `out` is still empty.
RECURSIVE ParseFromAnyDate(_, _, _)
ParseFromAnyDate(parts, k, out) ==
    IF k > Len(parts) THEN out
    ELSE IF IsDateToken(parts[k]) THEN out
    ELSE ParseFromAnyDate(parts, k + 1, PushToken(out, parseInt(parts[k])))

\* The loop of parseVersionParts over parts[k..], with `out` collected so far.
RECURSIVE ParseFrom(_, _, _)
ParseFrom(parts, k, out) ==
    IF k > Len(parts) THEN out
    ELSE IF Len(out) > 0 /\ IsDateToken(parts[k]) THEN out
    ELSE ParseFrom(parts, k + 1, PushToken(out, parseInt(parts[k])))

parseVersionParts(v) == ParseFrom(SplitVersion(v), 1, <<>>)

\* v ? parseVersionParts(v) : null
VersionOf(v) == IF v = NullString THEN NoVersion ELSE parseVersionParts(v)

\* The three attempts of extractClaudeFamilyVersion from attempt `which` on.
RECURSIVE ClaudeFrom(_, _, _)
\* if (v) return parseVersionParts(v), else the next attempt
ClaudeTry(v, id, family, which) ==
    IF v # NullString THEN parseVersionParts(v)
    ELSE IF which < ClaudeAttempts THEN ClaudeFrom(id, family, which + 1)
    ELSE NoVersion
ClaudeFrom(id, family, which) ==
    ClaudeTry(sanitizeVersionString(Capture(which, id, family)), id, family, which)

extractClaudeFamilyVersion(id, family) == ClaudeFrom(id, family, 1)

extractGptVersion(id) == VersionOf(sanitizeVersionString(Capture(3, id, "gpt")))

\* pattern.version(id) for the extractor a tier pattern names.
ApplyVersion(extractor, id) ==
    IF extractor = "gpt" THEN extractGptVersion(id)
    ELSE extractClaudeFamilyVersion(id, extractor)

Max(a, b) == IF a >= b THEN a ELSE b

\* Mutant of PartAt: a missing component counts as less than every number.
PartAtMissingLowest(v, k) == IF k <= Len(v) THEN v[k] ELSE -1

\* aa[k] ?? 0 (k is 1-based here)
PartAt(v, k) == IF k <= Len(v) THEN v[k] ELSE 0

RECURSIVE CompareFrom(_, _, _)
CompareFrom(aa, bb, k) ==
    IF k > Max(Len(aa), Len(bb)) THEN 0
    ELSE IF PartAt(aa, k) # PartAt(bb, k)
         THEN (IF PartAt(aa, k) > PartAt(bb, k) THEN 1 ELSE -1)
    ELSE CompareFrom(aa, bb, k + 1)

compareVersionParts(a, b) ==
    IF a = NoVersion /\ b = NoVersion THEN 0
    ELSE IF a # NoVersion /\ b = NoVersion THEN 1
    ELSE IF a = NoVersion /\ b # NoVersion THEN -1
    ELSE CompareFrom(a, b, 1)


-----------------------------------------------------------------------------
(* The model registry                                                      *)

MaxPool == 3     \* longest list getAvailable() returns in the model

Model(provider, id) == [provider |-> provider, id |-> id]

\* The models ctx.modelRegistry.getAvailable() may list.
Registry ==
    << Model("anthropic", "claude-3-opus-20240229"),
       Model("anthropic", "claude-opus-4-5-20251101"),
       Model("amazon-bedrock", "claude-opus-4-5"),
       Model("anthropic", "claude-opus-5-beta"),
       Model("openai", "gpt-5.2"),
       Model("openrouter", "Gemini-Pro GPT - 5"),
       Model("Google", "Gemini-2.5-Pro-Preview"),
       Model("google", "gemini-2.5-flash"),
       Model("anthropic", "claude-sonnet-4-0"),
       Model("anthropic", "claude-haiku-4-5-20251001"),
       Model("local", "llama-3-beta") >>

Models == {Registry[k] : k \in 1..Len(Registry)}

Tiers == <<"complex", "standard", "simple">>

\* What the loop of resolveBestAvailable reads of a model m for tier t, each
\* field computed by the function of the source that the loop calls:
\*   score    scoreModelForTier(m, tier)
\*   match    bestTierPatternMatch(m.id, tier)
\*   ver      match.pattern.version(m.id), when the pattern has a version()
\*   preview  isUnstableModelId(m.id)
\*   known    isKnownMajorProvider(m.provider)
\*   key      `${m.provider}:${m.id}`
VersionByMatch(match, id) ==
    IF match.pattern.version = "none" THEN NoVersion
    ELSE ApplyVersion(match.pattern.version, id)

FactsWith(m, t, match) ==
    [score |-> scoreModelForTier(m, t),
     match |-> match,
     ver |-> VersionByMatch(match, m.id),
     preview |-> isUnstableModelId(m.id),
     known |-> isKnownMajorProvider(m.provider),
     key |-> m.provider \o ":" \o m.id]

FactsOf(m, t) == FactsWith(m, t, bestTierPatternMatch(m.id, t))

\* FactsOf of every model of the registry and every tier, evaluated once.
RECURSIVE FactsUpTo(_, _)
FactsUpTo(t, k) ==
    IF k = 0 THEN <<>> ELSE Append(FactsUpTo(t, k - 1), FactsOf(Registry[k], t))

RECURSIVE FactsTableUpTo(_)
FactsTableUpTo(k) ==
    IF k = 0 THEN <<>>
    ELSE Append(FactsTableUpTo(k - 1), FactsUpTo(Tiers[k], Len(Registry)))

FactsTable == FactsTableUpTo(Len(Tiers))

\* The position of every model in Registry and of every tier in Tiers.
RECURSIVE IndexUpTo(_, _)
IndexUpTo(seq, k) ==
    IF k = 1 THEN seq[1] :> 1 ELSE (seq[k] :> k) @@ IndexUpTo(seq, k - 1)

RegistryIndexTable == IndexUpTo(Registry, Len(Registry))
TierIndexTable == IndexUpTo(Tiers, Len(Tiers))

RegistryIndex(m) == RegistryIndexTable[m]
TierIndex(t) == TierIndexTable[t]

Facts(m, t) == FactsTable[TierIndex(t)][RegistryIndex(m)]

-----------------------------------------------------------------------------
(* resolveBestAvailable and selectSubagentModel                            *)

NEGATIVE_INFINITY == -1
NoModel == Model("<null>", "<null>")
NoResult == [model |-> NoModel, modelId |-> "<null>", tier |-> "<null>",
             thinkingLevel |-> "<null>"]

\* Mutant of TieBreak: the stability step left out.
TieBreakNoStability(fa, fb) ==
    IF /\ fa.match # NoMatch
       /\ fb.match # NoMatch
       /\ fa.match.pattern.kind = fb.match.pattern.kind
       /\ fa.match.pattern.version # "none"
       /\ compareVersionParts(fb.ver, fa.ver) > 0
    THEN TRUE
    ELSE IF fa.known # fb.known THEN ~fa.known /\ fb.known
    ELSE StrLess(fb.key, fa.key)

\* Mutant of TieBreak: the known-provider step left out.
TieBreakNoProvider(fa, fb) ==
    IF fa.preview # fb.preview THEN fa.preview /\ ~fb.preview
    ELSE IF /\ fa.match # NoMatch
            /\ fb.match # NoMatch
            /\ fa.match.pattern.kind = fb.match.pattern.kind
            /\ fa.match.pattern.version # "none"
            /\ compareVersionParts(fb.ver, fa.ver) > 0
         THEN TRUE
    ELSE StrLess(fb.key, fa.key)

\* Mutant of TieBreak: the version step left out.
TieBreakNoVersion(fa, fb) ==
    IF fa.preview # fb.preview THEN fa.preview /\ ~fb.preview
    ELSE IF fa.known # fb.known THEN ~fa.known /\ fb.known
    ELSE StrLess(fb.key, fa.key)

\* Mutant of TieBreak: the final comparison reversed (a < b for b < a).
TieBreakLargerKey(fa, fb) ==
    IF fa.preview # fb.preview THEN fa.preview /\ ~fb.preview
    ELSE IF /\ fa.match # NoMatch
            /\ fb.match # NoMatch
            /\ fa.match.pattern.kind = fb.match.pattern.kind
            /\ fa.match.pattern.version # "none"
            /\ compareVersionParts(fb.ver, fa.ver) > 0
         THEN TRUE
    ELSE IF fa.known # fb.known THEN ~fa.known /\ fb.known
    ELSE StrLess(fa.key, fb.key)

\* The tie-break chain on the facts fa of the running best and fb of the
\* candidate m, both of the same score: TRUE when m replaces the running best.
TieBreak(fa, fb) ==
    IF fa.preview # fb.preview THEN fa.preview /\ ~fb.preview
    ELSE IF /\ fa.match # NoMatch
            /\ fb.match # NoMatch
            /\ fa.match.pattern.kind = fb.match.pattern.kind
            /\ fa.match.pattern.version # "none"
            /\ compareVersionParts(fb.ver, fa.ver) > 0
         THEN TRUE
    ELSE IF fa.known # fb.known THEN ~fa.known /\ fb.known
    ELSE StrLess(fb.key, fa.key)

TieBreakReplaces(b, m, t) == TieBreak(Facts(b, t), Facts(m, t))

\* Mutant of LoopBodyScored: bestScore = s left out.
LoopBodyScoredStale(b, bScore, m, s, t) ==
    IF s > bScore THEN [best |-> m, bestScore |-> bScore]
    ELSE IF s = bScore /\ b # NoModel /\ TieBreakReplaces(b, m, t)
         THEN [best |-> m, bestScore |-> bScore]
    ELSE [best |-> b, bestScore |-> bScore]

\* The body of the loop for a candidate m of score s.
LoopBodyScored(b, bScore, m, s, t) ==
    IF s > bScore THEN [best |-> m, bestScore |-> s]
    ELSE IF s = bScore /\ b # NoModel /\ TieBreakReplaces(b, m, t)
         THEN [best |-> m, bestScore |-> bScore]
    ELSE [best |-> b, bestScore |-> bScore]

\* One iteration of `for (const m of available)`: the running best and its
\* score after candidate m.
LoopBody(b, bScore, m, t) == LoopBodyScored(b, bScore, m, Facts(m, t).score, t)

\* The running best r extended by the candidate m.
Extend(r, m, t) == LoopBody(r.best, r.bestScore, m, t)

\* The running best after the first k candidates of pool.
RECURSIVE RunLoop(_, _, _)
RunLoop(pool, t, k) ==
    IF k = 0 THEN [best |-> NoModel, bestScore |-> NEGATIVE_INFINITY]
    ELSE Extend(RunLoop(pool, t, k - 1), pool[k], t)

\* best ?? available[0]
ReturnValue(b, pool) == IF b # NoModel THEN b ELSE pool[1]

\* resolveBestAvailable on a non-empty pool.
resolveBestAvailable(pool, t) == ReturnValue(RunLoop(pool, t, Len(pool)).best, pool)

\* { model, modelId: model.id, tier, thinkingLevel }
SelectedModel(model, t, level) ==
    [model |-> model, modelId |-> model.id, tier |-> t, thinkingLevel |-> level]

Pools == UNION {[1..n -> Models] : n \in 0..MaxPool}

\* The state of a component that is not running.
SelIdle ==
    /\ supplied = <<>> /\ called = FALSE /\ available = <<>> /\ tier = "complex" /\ inputLevel = NoLevel /\ pc = "off"
    /\ i = 0 /\ best = NoModel /\ bestScore = NEGATIVE_INFINITY
    /\ thinkingLevel = "<null>" /\ result = NoResult

VerIdle ==
    vStem = "" /\ vTail = "" /\ vFamily = "none" /\ vPc = "off" /\ vOut = NoVersion

NoCompare == [ab |-> 0, ba |-> 0, bc |-> 0, ac |-> 0]

CmpIdle ==
    /\ cmpA = NoVersion /\ cmpB = NoVersion /\ cmpC = NoVersion
    /\ cmpPc = "off" /\ cmpOut = NoCompare

NoParams == [path |-> Undefined, file_path |-> Undefined, file |-> Undefined]

ReadIdle ==
    /\ rdParams = NoParams /\ rdKind = "none" /\ rdPc = "off"
    /\ rdPath = Undefined /\ rdIsDir = FALSE /\ rdWarned = FALSE
    /\ rdNotice = "" /\ nativeCalls = <<>> /\ rdOutcome = "none"

ParseIdle ==
    pvTokens = <<>> /\ pvSeps = <<>> /\ pvIn = "" /\ pvPc = "off" /\ pvOut = <<>>

EarlierIdle ==
    oldAvailable = <<>> /\ oldTier = "complex" /\ oldPc = "off" /\ oldBest = NoModel

TierIdle ==
    /\ etFn = "none" /\ etSubagent = "none" /\ etMessage = ""
    /\ etPc = "off" /\ etTier = "none"

HookIdle ==
    /\ hasAutoNamed = FALSE /\ hookPending = <<>> /\ genStarted = 0
    /\ settled = FALSE /\ hookSetOver = "<undefined>"

NoArgs == [diff |-> FALSE, files |-> FALSE]

SpinIdle ==
    /\ spTool = "none" /\ spArgs = NoArgs /\ spAvailable = <<>> /\ spPc = "off"
    /\ spInterval = FALSE /\ spinnerFrame = 0 /\ spRunning = FALSE
    /\ spStarted = FALSE /\ spOutcome = "none" /\ spLate = FALSE

\* args without timeoutMs
NoTimeoutArg == [given |-> FALSE, ms |-> 0]

FetchIdle ==
    /\ wfArg = NoTimeoutArg /\ wfTimeoutMs = 0 /\ wfPc = "off" /\ wfClock = 0
    /\ wfArmed = FALSE /\ wfListener = FALSE /\ wfSignalAborted = FALSE
    /\ wfAborted = FALSE /\ wfOk = FALSE /\ wfResult = "none"

NoNotice == [text |-> "", level |-> "none"]
NoLlm == [model |-> FALSE, apiKey |-> FALSE, throws |-> FALSE, content |-> <<>>]

NameIdle ==
    /\ sessionName = Undefined /\ entries = <<>> /\ llm = NoLlm
    /\ cmdArgs = "" /\ cmdPc = "off" /\ cmdText = NullString
    /\ nameBefore = Undefined /\ notice = NoNotice

\* No call of selectSubagentModel is in progress.
NoCall ==
    /\ available = <<>>
    /\ tier = "complex"
    /\ inputLevel = NoLevel
    /\ i = 0
    /\ best = NoModel
    /\ bestScore = NEGATIVE_INFINITY
    /\ thinkingLevel = "<null>"
    /\ result = NoResult

Init ==
    /\ supplied = <<>>
    /\ called = FALSE
    /\ pc = "idle"
    /\ NoCall
    /\ VerIdle
    /\ CmpIdle
    /\ NameIdle
    /\ ReadIdle
    /\ ParseIdle
    /\ EarlierIdle
    /\ TierIdle
    /\ HookIdle
    /\ SpinIdle
    /\ FetchIdle

\* A caller calls selectSubagentModel(input, ctx): the input and the entries
\* of the registry are the caller's; getAvailable() returns those entries.
Invoke ==
    /\ pc = "idle"
    /\ supplied' \in Pools
    /\ available' = supplied'
    /\ tier' \in ModelTier
    /\ inputLevel' \in ThinkingLevel \cup {NoLevel}
    /\ pc' = "call"
    /\ UNCHANGED <<called, i, best, bestScore, thinkingLevel, result>>
    /\ UNCHANGED notSelVars

\* Mutant of Call: the check for an empty registry left out.
CallNoThrow ==
    /\ pc = "call"
    /\ thinkingLevel' = IF inputLevel # NoLevel THEN inputLevel
                        ELSE tierToThinkingLevel(tier)
    /\ pc' = "loop"
    /\ UNCHANGED <<supplied, called, available, tier, inputLevel, i, best, bestScore,
                   result>>
    /\ UNCHANGED notSelVars

\* Mutant of Call: available.length <= 1 for available.length === 0.
CallThrowsOnSingle ==
    /\ pc = "call"
    /\ thinkingLevel' = IF inputLevel # NoLevel THEN inputLevel
                        ELSE tierToThinkingLevel(tier)
    /\ pc' = IF Len(available) <= 1 THEN "threw" ELSE "loop"
    /\ UNCHANGED <<supplied, called, available, tier, inputLevel, i, best, bestScore,
                   result>>
    /\ UNCHANGED notSelVars

\* Mutant of Call: input.thinkingLevel not read.
CallIgnoresOverride ==
    /\ pc = "call"
    /\ thinkingLevel' = tierToThinkingLevel(tier)
    /\ pc' = IF Len(available) = 0 THEN "threw" ELSE "loop"
    /\ UNCHANGED <<supplied, called, available, tier, inputLevel, i, best, bestScore,
                   result>>
    /\ UNCHANGED notSelVars

\* selectSubagentModel up to the loop of resolveBestAvailable: the thinking
\* level is fixed, and an empty registry throws.
Call ==
    /\ pc = "call"
    /\ thinkingLevel' = IF inputLevel # NoLevel THEN inputLevel
                        ELSE tierToThinkingLevel(tier)
    /\ pc' = IF Len(available) = 0 THEN "threw" ELSE "loop"
    /\ UNCHANGED <<supplied, called, available, tier, inputLevel, i, best, bestScore,
                   result>>
    /\ UNCHANGED notSelVars

SetBest(r) == best' = r.best /\ bestScore' = r.bestScore

\* One candidate of the pool.
LoopStep ==
    /\ pc = "loop"
    /\ i < Len(available)
    /\ SetBest(LoopBody(best, bestScore, available[i + 1], tier))
    /\ i' = i + 1
    /\ UNCHANGED <<supplied, called, available, tier, inputLevel, thinkingLevel, pc,
                   result>>
    /\ UNCHANGED notSelVars

\* Mutant of Return: the selected model moved to the front of the array.
ReturnMovesSelected ==
    /\ pc = "loop"
    /\ i = Len(available)
    /\ result' = SelectedModel(ReturnValue(best, available), tier, thinkingLevel)
    /\ available' = <<ReturnValue(best, available)>> \o
                     SelectSeq(available, LAMBDA m : m # ReturnValue(best, available))
    /\ pc' = "done"
    /\ UNCHANGED <<supplied, called, tier, inputLevel, thinkingLevel, i, best,
                   bestScore>>
    /\ UNCHANGED notSelVars

\* The end of the loop: resolveBestAvailable returns and selectSubagentModel
\* builds its result.
Return ==
    /\ pc = "loop"
    /\ i = Len(available)
    /\ result' = SelectedModel(ReturnValue(best, available), tier, thinkingLevel)
    /\ pc' = "done"
    /\ UNCHANGED <<supplied, called, available, tier, inputLevel, thinkingLevel, i,
                   best, bestScore>>
    /\ UNCHANGED notSelVars

\* Mutant of Leave: best and bestScore kept from one call to the next, as
\* variables of the module would be.
LeaveKeepsBest ==
    /\ pc \in {"done", "threw"}
    /\ pc' = "idle"
    /\ available' = <<>>
    /\ tier' = "complex"
    /\ inputLevel' = NoLevel
    /\ i' = 0
    /\ thinkingLevel' = "<null>"
    /\ result' = NoResult
    /\ supplied' = <<>>
    /\ called' = TRUE
    /\ UNCHANGED <<best, bestScore>>
    /\ UNCHANGED notSelVars

\* The call is over: available, best, bestScore and thinkingLevel are locals
\* of the two functions and end with it; the next call has its own pool.
Leave ==
    /\ pc \in {"done", "threw"}
    /\ pc' = "idle"
    /\ available' = <<>>
    /\ tier' = "complex"
    /\ inputLevel' = NoLevel
    /\ i' = 0
    /\ best' = NoModel
    /\ bestScore' = NEGATIVE_INFINITY
    /\ thinkingLevel' = "<null>"
    /\ result' = NoResult
    /\ supplied' = <<>>
    /\ called' = TRUE
    /\ UNCHANGED notSelVars

Next == Invoke \/ Call \/ LoopStep \/ Return \/ Leave

Spec == Init /\ [][Next]_vars


-----------------------------------------------------------------------------
(* Version extraction on its own: pattern.version(id) for an id given as   *)
(* vStem \o vTail                                                          *)

Extractors == {"opus", "sonnet", "haiku", "gpt"}

\* Ids up to and including the family word and, for some, a semantic version.
VersionStems ==
    {"opus", "claude-opus", "Claude_Opus", "claude opus", "sonnet",
     "claude-sonnet", "haiku", "claudehaiku", "gpt", "GPT",
     "gpt-5", "gpt-5.2", "GPT 5", "claude-opus-4-5", "claude-opus-4",
     "opus-4.5", "claude-3-opus", "Claude-V3-Opus", "claude-3-5-sonnet",
     "claude-sonnet-4", "claude-haiku-4-5", "mistral-large"}

\* What follows the stem in the id.
VersionTails ==
    {"", "-20251101", "_20250514", "-2025-08-07", "-2024.10.22", "-2024",
     " 20240229", "-v20240229", "-1900.1", "-1899-12-31", "-mini", "-4-10"}

InitVersion ==
    /\ vStem \in VersionStems
    /\ vTail \in VersionTails
    /\ vFamily \in Extractors
    /\ vPc = "start"
    /\ vOut = NoVersion
    /\ SelIdle
    /\ CmpIdle
    /\ NameIdle
    /\ ReadIdle
    /\ ParseIdle
    /\ EarlierIdle
    /\ TierIdle
    /\ HookIdle
    /\ SpinIdle
    /\ FetchIdle

\* version(id) of the tier pattern whose extractor is vFamily.
Extract ==
    /\ vPc = "start"
    /\ vOut' = ApplyVersion(vFamily, vStem \o vTail)
    /\ vPc' = "done"
    /\ UNCHANGED <<vStem, vTail, vFamily>>
    /\ UNCHANGED notVerVars

NextVersion == Extract

SpecVersion == InitVersion /\ [][NextVersion]_vars


-----------------------------------------------------------------------------
(* Properties of the selector (checked under Spec)                         *)

\* MatchingIndices of every model of the registry for tier t, evaluated once.
RECURSIVE HitsUpTo(_, _)
HitsUpTo(t, k) ==
    IF k = 0 THEN <<>>
    ELSE Append(HitsUpTo(t, k - 1), MatchingIndices(Registry[k].id, t))

RECURSIVE HitsTableUpTo(_)
HitsTableUpTo(k) ==
    IF k = 0 THEN <<>>
    ELSE Append(HitsTableUpTo(k - 1), HitsUpTo(Tiers[k], Len(Registry)))

HitsTable == HitsTableUpTo(Len(Tiers))

\* The indices of the patterns of tier t that the id of m matches.
Hits(m, t) == HitsTable[TierIndex(t)][RegistryIndex(m)]

MinOf(S) == CHOOSE x \in S : \A y \in S : x <= y

\* The lowest index of a pattern of the tier that m matches is idx.
BestIndexIs(m, idx) == Hits(m, tier) # {} /\ MinOf(Hits(m, tier)) = idx

\* The id contains a preview/experimental/beta marker, in any case.
HasMarker(id) ==
    Includes(id, "preview") \/ Includes(id, "experimental") \/ Includes(id, "beta")

Selected == result.model

TwoCandidates == pc = "done" /\ Len(available) = 2

\* C1: for every tier, a call on an empty registry fails: it throws, and no
\* SelectedModel (no placeholder) is returned.
EmptyPoolFails ==
    (pc \notin {"idle", "call"} /\ Len(available) = 0) =>
        (pc = "threw" /\ result = NoResult)

EmptyPoolFailsWitness ==
    pc = "threw" /\ Len(available) = 0 /\ tier = "simple" /\ result = NoResult

\* C2: for every tier and every non-empty registry the call never throws, and
\* the model it returns is an entry of the registry, modelId being its id.
NonEmptySucceeds ==
    Len(available) > 0 =>
        /\ pc # "threw"
        /\ pc = "done" =>
              /\ \E k \in 1..Len(available) : available[k] = Selected
              /\ result.modelId = Selected.id
              /\ result # NoResult

\* A registry with a duplicate entry in which nothing matches the tier.
NonEmptySucceedsWitness ==
    /\ pc = "done"
    /\ Len(available) = 3
    /\ available[1] = available[3]
    /\ available[1] # available[2]
    /\ \A k \in 1..3 : Hits(available[k], tier) = {}
    /\ Selected = available[2]

\* C3: of two candidates whose best matching patterns have index 0 and index
\* 1, the one of index 0 is selected, in either order of the registry.
PriorityDominance ==
    TwoCandidates =>
        \A a \in 1..2 :
            (BestIndexIs(available[a], 0) /\ BestIndexIs(available[3 - a], 1))
                => Selected = available[a]

\* The index-0 candidate comes second, carries a beta marker and has the
\* greater provider:id; the index-1 candidate is stable.
PriorityDominanceWitness ==
    /\ TwoCandidates
    /\ tier = "complex"
    /\ available = <<Model("openai", "gpt-5.2"), Model("anthropic", "claude-opus-5-beta")>>
    /\ BestIndexIs(available[2], 0) /\ BestIndexIs(available[1], 1)
    /\ Selected = available[2]

\* C4: the score of a candidate is 100 - 10 * i for the lowest index i of a
\* pattern it matches and 0 when it matches none; a candidate that matches
\* several patterns, all of lower priority than the best pattern of another
\* candidate, scores less than that other candidate.
ExpectedScore(hits) == IF hits = {} THEN 0 ELSE 100 - 10 * MinOf(hits)

ScoreIsBestMatchOnly ==
    pc = "done" =>
        /\ \A k \in 1..Len(available) :
              Facts(available[k], tier).score = ExpectedScore(Hits(available[k], tier))
        /\ \A a, b \in 1..Len(available) :
              (/\ Cardinality(Hits(available[a], tier)) >= 2
               /\ Hits(available[b], tier) # {}
               /\ MinOf(Hits(available[b], tier)) < MinOf(Hits(available[a], tier)))
                  => Facts(available[a], tier).score < Facts(available[b], tier).score

\* "Gemini-Pro GPT - 5" matches the patterns of index 1 (in its normalized
\* form) and 2, the opus id only the pattern of index 0.
ScoreIsBestMatchOnlyWitness ==
    /\ TwoCandidates
    /\ tier = "complex"
    /\ Hits(available[1], tier) = {1, 2}
    /\ Hits(available[2], tier) = {0}
    /\ Facts(available[1], tier).score = 90
    /\ Selected = available[2]

\* Both candidates matched the same pattern, which has a version extractor,
\* and are equally stable.
SameFamilyWithVersion(a, b) ==
    /\ Facts(a, tier).score = Facts(b, tier).score
    /\ Facts(a, tier).preview = Facts(b, tier).preview
    /\ Facts(a, tier).match # NoMatch
    /\ Facts(a, tier).match.pattern.kind = Facts(b, tier).match.pattern.kind
    /\ Facts(a, tier).match.pattern.version # "none"

\* C5: of two candidates of equal score and stability that matched the same
\* pattern with a version extractor, the one of the greater version vector is
\* selected, in either order of the registry.
VersionPreference ==
    TwoCandidates =>
        \A a \in 1..2 :
            (/\ SameFamilyWithVersion(available[a], available[3 - a])
             /\ compareVersionParts(Facts(available[a], tier).ver,
                                    Facts(available[3 - a], tier).ver) > 0)
                => Selected = available[a]

Orderings(n) == {f \in [1..n -> 1..n] : \A x, y \in 1..n : f[x] = f[y] => x = y}

Permuted(pool, f) == [k \in 1..Len(pool) |-> pool[f[k]]]

\* C6: the selection does not depend on the order in which the registry lists
\* its models.
OrderIndependent ==
    pc = "done" =>
        \A f \in Orderings(Len(available)) :
            resolveBestAvailable(Permuted(available, f), tier) = Selected

\* C7: of two candidates of equal score of which exactly one id carries a
\* preview/experimental/beta marker, the one without the marker is selected,
\* in either order of the registry.
StabilityTieBreak ==
    TwoCandidates =>
        \A a \in 1..2 :
            (/\ Facts(available[a], tier).score = Facts(available[3 - a], tier).score
             /\ ~HasMarker(available[a].id)
             /\ HasMarker(available[3 - a].id))
                => Selected = available[a]

\* The marked candidate comes first, has the higher version and a known
\* provider; the stable one has an unknown provider.
StabilityTieBreakWitness ==
    /\ TwoCandidates
    /\ tier = "complex"
    /\ available = <<Model("anthropic", "claude-opus-5-beta"),
                     Model("amazon-bedrock", "claude-opus-4-5")>>
    /\ Selected = available[2]

NothingMatches == \A k \in 1..Len(available) : Hits(available[k], tier) = {}

\* C8 as stated: when no candidate matches a pattern of the tier, the result
\* is the candidate of the smallest provider:id string.
NoMatchSmallestKey ==
    (pc = "done" /\ NothingMatches) =>
        \A k \in 1..Len(available) :
            ~StrLess(Facts(available[k], tier).key, Facts(Selected, tier).key)

\* m is not preferred to r by the chain stability, known provider, provider:id.
NotPreferredBy(fm, fr) ==
    IF fm.preview # fr.preview THEN fm.preview
    ELSE IF fm.known # fr.known THEN fr.known
    ELSE ~StrLess(fm.key, fr.key)

NotPreferred(m, r) == NotPreferredBy(Facts(m, tier), Facts(r, tier))

\* C8 as amended: when no candidate of a non-empty registry matches a pattern
\* of the tier, the call succeeds and its result is the first candidate in
\* the order: ids without marker before ids with one, then known providers
\* before unknown ones, then the smaller provider:id string.
NoMatchChainOrder ==
    /\ (pc = "threw" /\ Len(available) > 0) => ~NothingMatches
    /\ (pc = "done" /\ NothingMatches) =>
          \A k \in 1..Len(available) : NotPreferred(available[k], Selected)

\* The smallest provider:id belongs to an id with a beta marker, and another
\* candidate is selected.
NoMatchChainOrderWitness ==
    /\ pc = "done"
    /\ NothingMatches
    /\ Len(available) = 3
    /\ \E k \in 1..3 :
          /\ Facts(available[k], tier).preview
          /\ \A j \in 1..3 : ~StrLess(Facts(available[j], tier).key,
                                        Facts(available[k], tier).key)
    /\ ~Facts(Selected, tier).preview

-----------------------------------------------------------------------------
(* compareVersionParts on its own: the pairs of three version vectors      *)

MaxParts == 2

\* Components of the vectors: 0 for the padding, 10 against 5 for the
\* numeric order.
VersionValues == {0, 4, 5, 10}

VersionVectors ==
    {NoVersion} \cup UNION {[1..n -> VersionValues] : n \in 0..MaxParts}

InitCompare ==
    /\ cmpA \in VersionVectors
    /\ cmpB \in VersionVectors
    /\ cmpC \in VersionVectors
    /\ cmpPc = "start"
    /\ cmpOut = NoCompare
    /\ SelIdle
    /\ VerIdle
    /\ NameIdle
    /\ ReadIdle
    /\ ParseIdle
    /\ EarlierIdle
    /\ TierIdle
    /\ HookIdle
    /\ SpinIdle
    /\ FetchIdle

Compare ==
    /\ cmpPc = "start"
    /\ cmpOut' = [ab |-> compareVersionParts(cmpA, cmpB),
                  ba |-> compareVersionParts(cmpB, cmpA),
                  bc |-> compareVersionParts(cmpB, cmpC),
                  ac |-> compareVersionParts(cmpA, cmpC)]
    /\ cmpPc' = "done"
    /\ UNCHANGED <<cmpA, cmpB, cmpC>>
    /\ UNCHANGED notCmpVars

NextCompare == Compare

SpecCompare == InitCompare /\ [][NextCompare]_vars

-----------------------------------------------------------------------------
(* Session titles (lib/title.ts) and the /ad-name command                  *)

TextPart(text) == [type |-> "text", text |-> text]
ImagePart == [type |-> "image", text |-> ""]
ThinkingPart == [type |-> "thinking", text |-> ""]

\* A session entry: a message of a role, or an entry of another type. The
\* content of a message is a string or an array of parts.
StringMessage(role, text) ==
    [type |-> "message", role |-> role, isString |-> TRUE, text |-> text,
     parts |-> <<>>]
PartsMessage(role, parts) ==
    [type |-> "message", role |-> role, isString |-> FALSE, text |-> "",
     parts |-> parts]
OtherEntry ==
    [type |-> "model_change", role |-> "none", isString |-> TRUE, text |-> "",
     parts |-> <<>>]

\* parts.filter(c => c.type === "text").map(c => c.text).join(sep)
RECURSIVE JoinTextFrom(_, _, _, _)
JoinTextFrom(parts, sep, k, started) ==
    IF k > Len(parts) THEN ""
    ELSE IF parts[k].type # "text" THEN JoinTextFrom(parts, sep, k + 1, started)
    ELSE (IF started THEN sep ELSE "") \o parts[k].text
            \o JoinTextFrom(parts, sep, k + 1, TRUE)

JoinText(parts, sep) == JoinTextFrom(parts, sep, 1, FALSE)

IsUserMessage(e) == e.type = "message" /\ e.role = "user"

\* entries.find(...): the index of the first user message, 0 when none.
RECURSIVE FindUserFrom(_, _)
FindUserFrom(es, k) ==
    IF k > Len(es) THEN 0
    ELSE IF IsUserMessage(es[k]) THEN k
    ELSE FindUserFrom(es, k + 1)

FirstUserTextOf(e) == IF e.isString THEN e.text ELSE JoinText(e.parts, " ")

FirstUserTextAt(es, k) == IF k = 0 THEN NullString ELSE FirstUserTextOf(es[k])

getFirstUserText(es) == FirstUserTextAt(es, FindUserFrom(es, 1))

\* !firstUserText?.trim()
NoUserText(text) == text = NullString \/ Trim(text) = ""

\* generateTitle: null without a model or without an API key; completeSimple
\* may throw; otherwise the text parts of the reply, joined and trimmed.
NoTitle == [threw |-> FALSE, title |-> NullString]

generateTitle(text, l) ==
    IF ~l.model THEN NoTitle
    ELSE IF ~l.apiKey THEN NoTitle
    ELSE IF l.throws THEN [threw |-> TRUE, title |-> NullString]
    ELSE [threw |-> FALSE, title |-> Trim(JoinText(l.content, ""))]

\* if (title)
Truthy(str) == str # NullString /\ str # Undefined /\ str # ""

Notice(text, level) == [text |-> text, level |-> level]

\* The sessions a command can find.
SessionEntries ==
    { <<>>,
      <<OtherEntry, StringMessage("assistant", "Hello")>>,
      <<StringMessage("user", "fix the login bug")>>,
      <<OtherEntry, StringMessage("user", "  "), StringMessage("user", "later")>>,
      <<PartsMessage("user", <<ImagePart>>)>>,
      <<StringMessage("assistant", "Hi"),
        PartsMessage("user", <<TextPart("add"), ImagePart, TextPart("tests")>>)>> }

LlmCases ==
    { [model |-> FALSE, apiKey |-> TRUE, throws |-> FALSE,
       content |-> <<TextPart("Unused")>>],
      [model |-> TRUE, apiKey |-> FALSE, throws |-> FALSE,
       content |-> <<TextPart("Unused")>>],
      [model |-> TRUE, apiKey |-> TRUE, throws |-> TRUE, content |-> <<>>],
      [model |-> TRUE, apiKey |-> TRUE, throws |-> FALSE,
       content |-> <<ThinkingPart, TextPart("  ")>>],
      [model |-> TRUE, apiKey |-> TRUE, throws |-> FALSE,
       content |-> <<TextPart(" Fix login"), ThinkingPart, TextPart(" bug ")>>] }

CommandArgs == {"", "  ", "auto", " auto ", "Auto", "foo", " my session "}

InitialNames == {Undefined, "Old name"}

InitAdName ==
    /\ sessionName \in InitialNames
    /\ entries = <<>>
    /\ llm = NoLlm
    /\ cmdArgs = ""
    /\ cmdPc = "idle"
    /\ cmdText = NullString
    /\ nameBefore = Undefined
    /\ notice = NoNotice
    /\ SelIdle
    /\ VerIdle
    /\ CmpIdle
    /\ ReadIdle
    /\ ParseIdle
    /\ EarlierIdle
    /\ TierIdle
    /\ HookIdle
    /\ SpinIdle
    /\ FetchIdle

\* The user enters /ad-name with some args; the session has its entries and
\* title generation will meet one of the cases.
AdNameEnter ==
    /\ cmdPc = "idle"
    /\ cmdArgs' \in CommandArgs
    /\ entries' \in SessionEntries
    /\ llm' \in LlmCases
    /\ nameBefore' = sessionName
    /\ cmdPc' = "run"
    /\ UNCHANGED <<sessionName, cmdText, notice>>
    /\ UNCHANGED notNameVars

\* The part of both generating branches before the await.
AdNameGenerate(text) ==
    IF NoUserText(text)
    THEN /\ notice' = Notice("No user message to generate title from", "warning")
         /\ cmdPc' = "done"
         /\ UNCHANGED <<sessionName, cmdText>>
    ELSE /\ cmdText' = text
         /\ cmdPc' = "generating"
         /\ UNCHANGED <<sessionName, notice>>

AdNameBranches(input) ==
    IF input = "auto" THEN AdNameGenerate(getFirstUserText(entries))
    ELSE IF input # ""
    THEN /\ sessionName' = input
         /\ notice' = Notice("Session: " \o input, "info")
         /\ cmdPc' = "done"
         /\ UNCHANGED cmdText
    ELSE IF Truthy(sessionName)
    THEN /\ notice' = Notice("Session: " \o sessionName
                                \o " (use /ad-name <text> to change)", "info")
         /\ cmdPc' = "done"
         /\ UNCHANGED <<sessionName, cmdText>>
    ELSE AdNameGenerate(getFirstUserText(entries))

\* Mutant of AdNameHandler: auto is not told from the other arguments.
AdNameHandlerNoAuto ==
    /\ cmdPc = "run"
    /\ sessionName' = Trim(cmdArgs)
    /\ notice' = Notice("Session: " \o Trim(cmdArgs), "info")
    /\ cmdPc' = "done"
    /\ UNCHANGED <<entries, llm, cmdArgs, cmdText, nameBefore>>
    /\ UNCHANGED notNameVars

\* The handler up to its first await, or to its return when it has none.
AdNameHandler ==
    /\ cmdPc = "run"
    /\ AdNameBranches(Trim(cmdArgs))
    /\ UNCHANGED <<entries, llm, cmdArgs, nameBefore>>
    /\ UNCHANGED notNameVars

AdNameTitled(r) ==
    IF r.threw THEN
        /\ notice' = Notice("Failed to generate title", "error")
        /\ UNCHANGED sessionName
    ELSE IF Truthy(r.title) THEN
        /\ sessionName' = r.title
        /\ notice' = Notice("Session: " \o r.title, "info")
    ELSE
        /\ notice' = Notice("Failed to generate title", "error")
        /\ UNCHANGED sessionName

\* Mutant of AdNameResume: the title is set without the test if (title).
AdNameResumeUnchecked ==
    /\ cmdPc = "generating"
    /\ sessionName' = generateTitle(cmdText, llm).title
    /\ notice' = Notice("Session: " \o generateTitle(cmdText, llm).title, "info")
    /\ cmdPc' = "done"
    /\ UNCHANGED <<entries, llm, cmdArgs, cmdText, nameBefore>>
    /\ UNCHANGED notNameVars

\* The handler after await generateTitle(firstUserText, ctx).
AdNameResume ==
    /\ cmdPc = "generating"
    /\ AdNameTitled(generateTitle(cmdText, llm))
    /\ cmdPc' = "done"
    /\ UNCHANGED <<entries, llm, cmdArgs, cmdText, nameBefore>>
    /\ UNCHANGED notNameVars

\* The handler has returned; the session keeps its name.
AdNameLeave ==
    /\ cmdPc = "done"
    /\ cmdPc' = "idle"
    /\ entries' = <<>>
    /\ llm' = NoLlm
    /\ cmdArgs' = ""
    /\ cmdText' = NullString
    /\ nameBefore' = Undefined
    /\ notice' = NoNotice
    /\ UNCHANGED sessionName
    /\ UNCHANGED notNameVars

NextAdName == AdNameEnter \/ AdNameHandler \/ AdNameResume \/ AdNameLeave

SpecAdName == InitAdName /\ [][NextAdName]_vars

-----------------------------------------------------------------------------
(* The read tool override of setupTools                                    *)

\* What a path can be on the file system.
PathKinds == {"file", "directory", "linkToDirectory", "linkToFile", "missing",
              "denied"}

\* await lstat(absolutePath): lstat does not follow a symbolic link, and
\* throws for a path that does not exist or cannot be accessed.
LstatThrows(kind) == kind \in {"missing", "denied"}
LstatIsDirectory(kind) == kind = "directory"

\* The native tools, which open the path and so follow symbolic links.
nativeLsExecute(kind) ==
    CASE kind \in {"directory", "linkToDirectory"} -> "listing"
      [] kind \in {"file", "linkToFile"} -> "error: ENOTDIR"
      [] kind = "missing" -> "error: ENOENT"
      [] kind = "denied" -> "error: EACCES"

nativeReadExecute(kind) ==
    CASE kind \in {"file", "linkToFile"} -> "content"
      [] kind \in {"directory", "linkToDirectory"} -> "error: EISDIR"
      [] kind = "missing" -> "error: ENOENT"
      [] kind = "denied" -> "error: EACCES"

\* a ?? b
Coalesce(a, b) == IF a # Undefined THEN a ELSE b

\* path ?? file_path ?? file
PathValue(params) == Coalesce(params.path, Coalesce(params.file_path, params.file))

\* [path, file_path, file].filter(Boolean)
ProvidedPaths(params) ==
    {v \in {params.path, params.file_path, params.file} : Truthy(v)}

\* providedPaths.length > 1 && new Set(providedPaths).size > 1
SeveralPaths(params) == Cardinality(ProvidedPaths(params)) > 1

NativeCall(tool, path) == [tool |-> tool, path |-> path]

ReadParams ==
    [path : {Undefined, "", "a"}, file_path : {Undefined, "b"},
     file : {Undefined, "", "a"}]

InitRead ==
    /\ rdParams = NoParams
    /\ rdKind = "none"
    /\ rdPc = "idle"
    /\ rdPath = Undefined
    /\ rdIsDir = FALSE
    /\ rdWarned = FALSE
    /\ rdNotice = ""
    /\ nativeCalls = <<>>
    /\ rdOutcome = "none"
    /\ SelIdle
    /\ VerIdle
    /\ CmpIdle
    /\ NameIdle
    /\ ParseIdle
    /\ EarlierIdle
    /\ TierIdle
    /\ HookIdle
    /\ SpinIdle
    /\ FetchIdle

\* The agent calls read with some params; the path is of some kind.
ReadEnter ==
    /\ rdPc = "idle"
    /\ rdParams' \in ReadParams
    /\ rdKind' \in PathKinds
    /\ rdPc' = "run"
    /\ UNCHANGED <<rdPath, rdIsDir, rdWarned, rdNotice, nativeCalls, rdOutcome>>
    /\ UNCHANGED notReadVars

\* execute up to await lstat(absolutePath), or to its throw.
ReadExecute ==
    /\ rdPc = "run"
    /\ rdPath' = PathValue(rdParams)
    /\ IF ~Truthy(PathValue(rdParams))
       THEN /\ rdOutcome' = "error: Missing required parameter"
            /\ rdPc' = "done"
            /\ UNCHANGED rdWarned
       ELSE /\ rdWarned' = SeveralPaths(rdParams)
            /\ rdPc' = "lstat"
            /\ UNCHANGED rdOutcome
    /\ UNCHANGED <<rdParams, rdKind, rdIsDir, rdNotice, nativeCalls>>
    /\ UNCHANGED notReadVars

\* lstat has settled: a directory goes to nativeLs.execute, anything else and
\* a failed lstat to nativeRead.execute.
ReadStat ==
    /\ rdPc = "lstat"
    /\ rdIsDir' = (~LstatThrows(rdKind) /\ LstatIsDirectory(rdKind))
    /\ rdNotice' = IF rdIsDir' THEN "read called on directory: " \o rdPath ELSE ""
    /\ nativeCalls' = Append(nativeCalls,
                             NativeCall(IF rdIsDir' THEN "ls" ELSE "read", rdPath))
    /\ rdPc' = "native"
    /\ UNCHANGED <<rdParams, rdKind, rdPath, rdWarned, rdOutcome>>
    /\ UNCHANGED notReadVars

\* The native tool has settled, and execute returns what it returned or
\* throws what it threw.
ReadNative ==
    /\ rdPc = "native"
    /\ rdOutcome' = IF rdIsDir THEN nativeLsExecute(rdKind)
                    ELSE nativeReadExecute(rdKind)
    /\ rdPc' = "done"
    /\ UNCHANGED <<rdParams, rdKind, rdPath, rdIsDir, rdWarned, rdNotice,
                   nativeCalls>>
    /\ UNCHANGED notReadVars

ReadLeave ==
    /\ rdPc = "done"
    /\ rdPc' = "idle"
    /\ rdParams' = NoParams
    /\ rdKind' = "none"
    /\ rdPath' = Undefined
    /\ rdIsDir' = FALSE
    /\ rdWarned' = FALSE
    /\ rdNotice' = ""
    /\ nativeCalls' = <<>>
    /\ rdOutcome' = "none"
    /\ UNCHANGED notReadVars

NextRead == ReadEnter \/ ReadExecute \/ ReadStat \/ ReadNative \/ ReadLeave

SpecRead == InitRead /\ [][NextRead]_vars

-----------------------------------------------------------------------------
(* Properties of version extraction (checked under SpecVersion)            *)

\* A build date after the semantic version: one 8-digit token, or year, month
\* and day as separate tokens.
BuildDateTails == {"-20251101", "_20250514", "-2025-08-07", "-2024.10.22"}

\* C9: when a build date follows the semantic version of an id, the version
\* vector is that of the id without the date.
BuildDateNotVersion ==
    (/\ vPc = "done"
     /\ vTail \in BuildDateTails
     /\ ApplyVersion(vFamily, vStem) # NoVersion)
        => vOut = ApplyVersion(vFamily, vStem)

\* A date-like token after the family word: a single run of 4 or more
\* digits, or a sequence whose first component is at least 1900.
DateLikeTails ==
    {"-20251101", "_20250514", "-2025-08-07", "-2024.10.22", "-2024",
     " 20240229", "-v20240229", "-1900.1"}

HasDigit(s) == \E p \in 1..Len(s) : IsDigit(CharAt(s, p))

\* The stem ends with the family word and holds no number.
FamilyWithoutNumber ==
    /\ ~HasDigit(vStem)
    /\ LitAt(toLowerCase(vStem), Len(vStem) - Len(vFamily) + 1, vFamily)

-----------------------------------------------------------------------------
(* Further properties of the selection (checked under Spec)                *)

\* The versions of two candidates of equal score do not differ: neither
\* matches a pattern, their pattern has no extractor, or the vectors (absent
\* ones included) compare as equal.
VersionsDoNotDiffer(fa, fb) ==
    \/ fa.match = NoMatch
    \/ fa.match.pattern.version = "none"
    \/ compareVersionParts(fa.ver, fb.ver) = 0

KnownDecides(fa, fb) ==
    /\ fa.score = fb.score
    /\ fa.preview = fb.preview
    /\ VersionsDoNotDiffer(fa, fb)
    /\ fa.known
    /\ ~fb.known

\* C12: of two candidates of equal score and equal stability whose versions
\* do not differ, the one whose provider is a known major provider is
\* selected when the other's is not, in either order of the registry and
\* whatever the order of the provider:id strings.
KnownProviderPreferred ==
    TwoCandidates =>
        \A a \in 1..2 :
            KnownDecides(Facts(available[a], tier), Facts(available[3 - a], tier))
                => Selected = available[a]

\* Both ids are opus 4.5; the unknown provider comes first and has the
\* smaller provider:id.
KnownProviderPreferredWitness ==
    /\ TwoCandidates
    /\ tier = "complex"
    /\ available = <<Model("amazon-bedrock", "claude-opus-4-5"),
                     Model("anthropic", "claude-opus-4-5-20251101")>>
    /\ KnownDecides(Facts(available[2], tier), Facts(available[1], tier))
    /\ Facts(available[1], tier).ver = <<4, 5>>
    /\ StrLess(Facts(available[1], tier).key, Facts(available[2], tier).key)
    /\ Selected = available[2]

\* The result of the call selectSubagentModel({tier: t, thinkingLevel:
\* level}, ctx) made on its own, for a non-empty pool.
IsolatedResult(pool, t, level) ==
    SelectedModel(resolveBestAvailable(pool, t), t,
                  IF level # NoLevel THEN level ELSE tierToThinkingLevel(t))

\* C13: in any sequence of calls, with whatever pools and tiers, each call
\* ends as the same call made on its own does: it throws exactly when its
\* pool is empty and otherwise returns the result computed from its tier and
\* its pool alone; every call starts from the same local state.
PureSelection ==
    /\ pc = "threw" => Len(available) = 0
    /\ pc = "done" =>
          /\ Len(available) > 0
          /\ result = IsolatedResult(available, tier, inputLevel)
    /\ pc \in {"idle", "call"} =>
          /\ best = NoModel
          /\ bestScore = NEGATIVE_INFINITY
          /\ thinkingLevel = "<null>"
          /\ result = NoResult

\* A later call of a sequence whose pool holds no candidate of the tier.
PureSelectionWitness ==
    /\ called
    /\ pc = "done"
    /\ Len(available) = 2
    /\ NothingMatches
    /\ result = IsolatedResult(available, tier, inputLevel)

\* C14: without an override the thinking level of the result is high for
\* complex, medium for standard and low for simple, whatever the pool and
\* whichever model is selected.
EffortMapping ==
    (pc = "done" /\ inputLevel = NoLevel) =>
        /\ tier = "complex" => result.thinkingLevel = "high"
        /\ tier = "standard" => result.thinkingLevel = "medium"
        /\ tier = "simple" => result.thinkingLevel = "low"

\* Tier simple with a pool of three whose selected model is an opus id.
EffortMappingWitness ==
    /\ pc = "done"
    /\ inputLevel = NoLevel
    /\ tier = "simple"
    /\ Len(available) = 3
    /\ Selected.id = "claude-3-opus-20240229"
    /\ result.thinkingLevel = "low"

\* C15: with an explicit thinking level in the input the result carries that
\* level, for every tier, and the selected model is the one selected without
\* it.
EffortOverride ==
    (pc = "done" /\ inputLevel # NoLevel) =>
        /\ result.thinkingLevel = inputLevel
        /\ result.model = IsolatedResult(available, tier, NoLevel).model

\* Level high asked for tier simple, whose own level is low.
EffortOverrideWitness ==
    /\ pc = "done"
    /\ tier = "simple"
    /\ inputLevel = "high"
    /\ result.thinkingLevel = "high"
    /\ Len(available) = 2
    /\ Selected = available[2]

ExamplePool ==
    <<Model("anthropic", "claude-3-opus-20240229"),
      Model("anthropic", "claude-opus-4-5-20251101"),
      Model("openai", "gpt-5.2")>>

\* C16: for the pool claude-3-opus-20240229, claude-opus-4-5-20251101 (both
\* anthropic), gpt-5.2 (openai), in this order, and tier complex: the two
\* opus ids have the highest score, the version of the second id is [4,5],
\* and the second candidate is selected.
ExampleScenario ==
    (pc = "done" /\ tier = "complex" /\ available = ExamplePool) =>
        /\ Facts(available[1], tier).score = Facts(available[2], tier).score
        /\ Facts(available[3], tier).score < Facts(available[1], tier).score
        /\ Facts(available[2], tier).ver = <<4, 5>>
        /\ result.model = Model("anthropic", "claude-opus-4-5-20251101")
        /\ result.modelId = "claude-opus-4-5-20251101"

ExampleScenarioWitness ==
    /\ pc = "done"
    /\ tier = "complex"
    /\ available = ExamplePool
    /\ result.modelId = "claude-opus-4-5-20251101"

\* C17: a call leaves the pool as it was supplied: from its start to its end,
\* whether it returns or throws, getAvailable()'s array holds the entries
\* supplied, in their order, with their provider and id, and no other entry.
PoolUnchanged ==
    pc \in {"call", "loop", "done", "threw"} =>
        /\ available = supplied
        /\ \A k \in 1..Len(available) : available[k] \in Models

\* The second of three candidates was selected.
PoolUnchangedWitness ==
    /\ pc = "done"
    /\ Len(available) = 3
    /\ Selected = available[2]
    /\ Selected # available[1]
    /\ available = supplied

\* C20: after each candidate of the single pass the running best is one of
\* the candidates processed so far, bestScore is its score, and no candidate
\* processed so far has a greater score; the selected candidate has the
\* greatest score of the pool.
RunningBest ==
    /\ (pc \in {"loop", "done"} /\ i >= 1) =>
          /\ \E k \in 1..i : best = available[k]
          /\ bestScore = Facts(best, tier).score
          /\ \A k \in 1..i : Facts(available[k], tier).score <= bestScore
    /\ pc = "done" =>
          /\ i = Len(available)
          /\ Selected = best
          /\ \A k \in 1..Len(available) :
                Facts(available[k], tier).score <= Facts(Selected, tier).score

\* In the middle of the pass the third candidate has replaced the running
\* best with a greater score.
RunningBestWitness ==
    /\ pc = "loop"
    /\ i = 3
    /\ Len(available) = 3
    /\ best = available[3]
    /\ Facts(available[1], tier).score < Facts(available[2], tier).score
    /\ Facts(available[2], tier).score < bestScore

\* The selection from the pool of the two candidates a and b, in this order.
SelectFromPair(a, b) == resolveBestAvailable(<<a, b>>, tier)

\* C21: the selected candidate is not beaten by another member of the pool:
\* from the pool of the two, in either order, the selected candidate is
\* selected again.
PairwiseUnbeaten ==
    pc = "done" =>
        \A k \in 1..Len(available) :
            /\ SelectFromPair(Selected, available[k]) = Selected
            /\ SelectFromPair(available[k], Selected) = Selected

HasTopScore(k) ==
    \A j \in 1..Len(available) :
        Facts(available[j], tier).score <= Facts(available[k], tier).score

\* C22: for a pool of any size, when a candidate of the greatest score has an
\* id without a preview/experimental/beta marker, the id of the selected
\* candidate has no such marker.
PoolWideStability ==
    pc = "done" =>
        ((\E k \in 1..Len(available) :
              HasTopScore(k) /\ ~Facts(available[k], tier).preview)
            => ~Facts(Selected, tier).preview)

\* The first candidate of the greatest score is a beta; the stable one of that
\* score comes last, after a candidate of a lower score.
PoolWideStabilityWitness ==
    /\ pc = "done"
    /\ tier = "complex"
    /\ available = <<Model("anthropic", "claude-opus-5-beta"),
                     Model("openai", "gpt-5.2"),
                     Model("amazon-bedrock", "claude-opus-4-5")>>
    /\ HasTopScore(1) /\ HasTopScore(3) /\ ~HasTopScore(2)
    /\ HasMarker(available[1].id)
    /\ Selected = available[3]

\* pool with a copy of its k-th candidate inserted after position at.
WithCopy(pool, k, at) ==
    SubSeq(pool, 1, at) \o <<pool[k]>> \o SubSeq(pool, at + 1, Len(pool))

\* C23: a second copy of a candidate of the pool, inserted at any position,
\* does not change the provider and id of the selection.
DuplicateInsensitive ==
    (pc = "done" /\ Len(available) < MaxPool) =>
        \A k \in 1..Len(available), at \in 0..Len(available) :
            resolveBestAvailable(WithCopy(available, k, at), tier) = Selected

-----------------------------------------------------------------------------
(* Properties of compareVersionParts (checked under SpecCompare)           *)

\* The k-th component of a vector padded with zeros.
Padded(v, k) == IF k \in DOMAIN v THEN v[k] ELSE 0

\* The first position at which the padded vectors differ, 0 when none does.
FirstDifference(a, b) ==
    IF \A k \in 1..Max(Len(a), Len(b)) : Padded(a, k) = Padded(b, k) THEN 0
    ELSE CHOOSE k \in 1..Max(Len(a), Len(b)) :
            /\ Padded(a, k) # Padded(b, k)
            /\ \A j \in 1..(k - 1) : Padded(a, j) = Padded(b, j)

NumericOrder(a, b, d) ==
    IF d = 0 THEN 0 ELSE IF Padded(a, d) > Padded(b, d) THEN 1 ELSE -1

\* C11: version vectors are compared number by number, a missing trailing
\* component counting as 0: [4,10] is greater than [4,5] and [4] equals
\* [4,0]; compare(a,b) = -compare(b,a); the order is transitive; a vector
\* is greater than an absent one and two absent ones are equal.
CompareIsNumericOrder ==
    cmpPc = "done" =>
        /\ (cmpA # NoVersion /\ cmpB # NoVersion) =>
              cmpOut.ab = NumericOrder(cmpA, cmpB, FirstDifference(cmpA, cmpB))
        /\ (cmpA = <<4, 10>> /\ cmpB = <<4, 5>>) => cmpOut.ab = 1
        /\ (cmpA = <<4>> /\ cmpB = <<4, 0>>) => cmpOut.ab = 0
        /\ cmpOut.ab = -cmpOut.ba
        /\ (cmpOut.ab >= 0 /\ cmpOut.bc >= 0) => cmpOut.ac >= 0
        /\ (cmpOut.ab > 0 /\ cmpOut.bc >= 0) => cmpOut.ac > 0
        /\ (cmpOut.ab >= 0 /\ cmpOut.bc > 0) => cmpOut.ac > 0
        /\ (cmpA # NoVersion /\ cmpB = NoVersion) => cmpOut.ab = 1
        /\ (cmpA = NoVersion /\ cmpB = NoVersion) => cmpOut.ab = 0

\* [4,10] against [4,5] against [4], which equals [4,0] and is less than both.
CompareIsNumericOrderWitness ==
    /\ cmpPc = "done"
    /\ cmpA = <<4, 10>> /\ cmpB = <<4, 5>> /\ cmpC = <<4>>
    /\ cmpOut = [ab |-> 1, ba |-> -1, bc |-> 1, ac |-> 1]

-----------------------------------------------------------------------------
(* Properties of the /ad-name command (checked under SpecAdName)           *)

\* There is a first user message with text, and generation returns a title.
GenerationGivesTitle ==
    /\ ~NoUserText(getFirstUserText(entries))
    /\ ~generateTitle(getFirstUserText(entries), llm).threw
    /\ Truthy(generateTitle(getFirstUserText(entries), llm).title)

GeneratedTitle == generateTitle(getFirstUserText(entries), llm).title

\* C18: when /ad-name has been handled, with the argument taken trimmed: no
\* argument and a name set leave the name as it was and display it; no
\* argument and no name set the name to the generated title; auto sets it to
\* the generated title even when a name was set; any other argument sets it
\* to the trimmed argument; and whenever a title is to be generated but
\* generation throws, returns nothing or an empty title, or there is no first
\* user message with text, the name is as it was.
AdNameTable ==
    cmdPc = "done" =>
        /\ (Trim(cmdArgs) = "" /\ Truthy(nameBefore)) =>
              /\ sessionName = nameBefore
              /\ notice = Notice("Session: " \o nameBefore
                                    \o " (use /ad-name <text> to change)", "info")
        /\ (Trim(cmdArgs) = "" /\ ~Truthy(nameBefore)) =>
              sessionName = IF GenerationGivesTitle THEN GeneratedTitle
                            ELSE nameBefore
        /\ Trim(cmdArgs) = "auto" =>
              sessionName = IF GenerationGivesTitle THEN GeneratedTitle
                            ELSE nameBefore
        /\ Trim(cmdArgs) \notin {"", "auto"} => sessionName = Trim(cmdArgs)

\* auto replaced the name that was set by the generated title.
AdNameTableWitness ==
    /\ cmdPc = "done"
    /\ Trim(cmdArgs) = "auto"
    /\ nameBefore = "my session"
    /\ sessionName = "Fix login bug"
    /\ notice = Notice("Session: Fix login bug", "info")

-----------------------------------------------------------------------------
(* Properties of the read tool override (checked under SpecRead)           *)

\* The path is a directory for whoever opens it.
IsDirectoryPath(kind) == kind \in {"directory", "linkToDirectory"}

\* C19: a call of the overridden read tool that names a path executes
\* exactly one native tool: native ls when the path is a directory, and the
\* call then returns a listing, not an EISDIR error; native read otherwise,
\* also when the path does not exist or cannot be stat'ed, and the call then
\* ends as native read does.
ReadDelegation ==
    (rdPc = "done" /\ Truthy(rdPath)) =>
        /\ Len(nativeCalls) = 1
        /\ IsDirectoryPath(rdKind) =>
              /\ nativeCalls[1].tool = "ls"
              /\ rdOutcome = "listing"
        /\ ~IsDirectoryPath(rdKind) =>
              /\ nativeCalls[1].tool = "read"
              /\ rdOutcome = nativeReadExecute(rdKind)

-----------------------------------------------------------------------------
(* parseVersionParts called on its own (SpecParse)                         *)

MaxTokens == 3   \* most tokens in an argument of parseVersionParts

\* The tokens the arguments are made of: plain numbers, tokens with a
\* numeric prefix, tokens without one, the empty token (two separators in
\* a row) and two date tokens.
DateTokens == {"20241022", "19991231"}
PlainTokens == {"", "4", "10", "5a", "v2"}
VersionTokens == PlainTokens \cup DateTokens

TokenLists == UNION {[1..n -> VersionTokens] : n \in 0..MaxTokens}
SeparatorLists == [1..(MaxTokens - 1) -> VersionSep]

\* The tokens toks[k..] joined by the separators seps[k..].
RECURSIVE JoinTokens(_, _, _)
JoinTokens(toks, seps, k) ==
    IF k > Len(toks) THEN ""
    ELSE IF k = Len(toks) THEN toks[k]
    ELSE toks[k] \o seps[k] \o JoinTokens(toks, seps, k + 1)

InitParse ==
    /\ pvTokens = <<>>
    /\ pvSeps = <<>>
    /\ pvIn = ""
    /\ pvPc = "idle"
    /\ pvOut = <<>>
    /\ SelIdle
    /\ VerIdle
    /\ CmpIdle
    /\ NameIdle
    /\ ReadIdle
    /\ EarlierIdle
    /\ TierIdle
    /\ HookIdle
    /\ SpinIdle
    /\ FetchIdle

\* A caller passes a version string to parseVersionParts.
ParseEnter ==
    /\ pvPc = "idle"
    /\ pvTokens' \in TokenLists
    /\ pvSeps' \in SeparatorLists
    /\ pvIn' = JoinTokens(pvTokens', pvSeps', 1)
    /\ pvPc' = "call"
    /\ pvOut' = <<>>
    /\ UNCHANGED notParseVars

\* parseVersionParts(v) runs and returns.
ParseCall ==
    /\ pvPc = "call"
    /\ pvOut' = parseVersionParts(pvIn)
    /\ pvPc' = "done"
    /\ UNCHANGED <<pvTokens, pvSeps, pvIn>>
    /\ UNCHANGED notParseVars

\* The caller drops the result.
ParseLeave ==
    /\ pvPc = "done"
    /\ pvTokens' = <<>>
    /\ pvSeps' = <<>>
    /\ pvIn' = ""
    /\ pvPc' = "idle"
    /\ pvOut' = <<>>
    /\ UNCHANGED notParseVars

NextParse == ParseEnter \/ ParseCall \/ ParseLeave

SpecParse == InitParse /\ [][NextParse]_vars

-----------------------------------------------------------------------------
(* Properties of parseVersionParts (checked under SpecParse)               *)

\* The number each token stands for (NaN: the token has no numeric prefix).
TokenNumber ==
    ("" :> NaN) @@ ("4" :> 4) @@ ("10" :> 10) @@ ("5a" :> 5) @@ ("v2" :> NaN)
    @@ ("20241022" :> 20241022) @@ ("19991231" :> 19991231)

\* The numbers of the numeric tokens among toks[1..n], in order.
RECURSIVE NumbersOf(_, _)
NumbersOf(toks, n) ==
    IF n = 0 THEN <<>>
    ELSE IF TokenNumber[toks[n]] = NaN THEN NumbersOf(toks, n - 1)
    ELSE Append(NumbersOf(toks, n - 1), TokenNumber[toks[n]])

\* The positions of toks that hold a date token, and those that hold a date
\* token after some numeric token.
DatePositions(toks) == {k \in 1..Len(toks) : toks[k] \in DateTokens}
DateSuffixPositions(toks) ==
    {k \in DatePositions(toks) : NumbersOf(toks, k - 1) # <<>>}

\* The number of tokens before the first position of S (all when S is empty).
TokensBefore(toks, S) ==
    IF S = {} THEN Len(toks) ELSE (CHOOSE k \in S : \A j \in S : k <= j) - 1

-----------------------------------------------------------------------------
(* The earlier variant of the selector: summed scores (SpecEarlier)        *)

\* claude.*word in the lower-cased string t
ClaudeThenIn(word, t) ==
    \E p \in 1..Len(t) : \E q \in 1..Len(t) :
        LitAt(t, p, "claude") /\ q >= p + 6 /\ LitAt(t, q, word)

\* gpt[-_]?5 in the lower-cased string t
Gpt5PlainIn(t) ==
    \E p \in 1..Len(t) :
        /\ LitAt(t, p, "gpt")
        /\ \/ LitAt(t, p + 3, "5")
           \/ (CharAt(t, p + 3) \in {"-", "_"} /\ LitAt(t, p + 4, "5"))

\* o\d in the lower-cased string t
ODigitIn(t) == \E p \in 1..Len(t) : LitAt(t, p, "o") /\ IsDigit(CharAt(t, p + 1))

\* re.test(s) for the expressions of the earlier pattern lists, all /i; the
\* optional (\.\d+)? of the gpt expression never decides the test.
EarlierReTest(re, s) ==
    CASE re.type = "claude" -> ClaudeThenIn(re.word, toLowerCase(s))
      [] re.type = "gpt5" -> Gpt5PlainIn(toLowerCase(s))
      [] re.type = "geminipro" -> GeminiProRe(s)
      [] re.type = "odigit" -> ODigitIn(toLowerCase(s))
      [] re.type = "substr" -> Includes(s, re.word)

Re(type, word) == [type |-> type, word |-> word]

\* tierPatterns(tier) of the earlier variant
tierPatternsEarlier(t) ==
    CASE t = "complex" ->
           << Re("claude", "opus"), Re("gpt5", ""), Re("geminipro", ""),
              Re("odigit", ""), Re("substr", "ultra") >>
      [] t = "standard" ->
           << Re("claude", "sonnet"), Re("gpt5", ""), Re("geminipro", "") >>
      [] t = "simple" ->
           << Re("claude", "haiku"), Re("substr", "flash") >>

\* re.test(id) || re.test(nid)
EarlierMatches(re, id) == EarlierReTest(re, id) \/ EarlierReTest(re, normalizeModelId(id))

\* patterns.forEach((re, idx) => ...): what the patterns from idx on add.
RECURSIVE PatternSum(_, _, _)
PatternSum(patterns, id, idx) ==
    IF idx >= Len(patterns) THEN 0
    ELSE (IF EarlierMatches(patterns[idx + 1], id) THEN 100 - idx * 10 ELSE 0)
         + PatternSum(patterns, id, idx + 1)

\* if (/re/i.test(id)) score += points
PointsIf(id, word, points) == IF Includes(id, word) THEN points ELSE 0

VendorBonus(id) ==
    PointsIf(id, "openai", 3) + PointsIf(id, "anthropic", 3) + PointsIf(id, "google", 3)

\* for (const re of penaltyPatterns()) if (re.test(id)) score -= 5
RECURSIVE PenaltyFrom(_, _)
PenaltyFrom(id, k) ==
    IF k > Len(penaltyPatterns) THEN 0
    ELSE PointsIf(id, penaltyPatterns[k], 5) + PenaltyFrom(id, k + 1)

scoreModelForTierEarlier(m, t) ==
    PatternSum(tierPatternsEarlier(t), m.id, 0) + VendorBonus(m.id) - PenaltyFrom(m.id, 1)

\* What the loop of the earlier resolveBestAvailable reads of a model, and
\* the indices (0-based) of the patterns it matches.
EarlierFactsOf(m, t) ==
    [score |-> scoreModelForTierEarlier(m, t),
     preview |-> isUnstableModelId(m.id),
     key |-> m.provider \o ":" \o m.id,
     hits |-> {idx \in 0..(Len(tierPatternsEarlier(t)) - 1) :
                  EarlierMatches(tierPatternsEarlier(t)[idx + 1], m.id)}]

RECURSIVE EarlierFactsUpTo(_, _)
EarlierFactsUpTo(t, k) ==
    IF k = 0 THEN <<>>
    ELSE Append(EarlierFactsUpTo(t, k - 1), EarlierFactsOf(Registry[k], t))

RECURSIVE EarlierTableUpTo(_)
EarlierTableUpTo(k) ==
    IF k = 0 THEN <<>>
    ELSE Append(EarlierTableUpTo(k - 1), EarlierFactsUpTo(Tiers[k], Len(Registry)))

EarlierTable == EarlierTableUpTo(Len(Tiers))

EarlierFacts(m, t) == EarlierTable[TierIndex(t)][RegistryIndex(m)]

\* The tie-breaker of the earlier loop: TRUE when m replaces best.
\*   if (aPreview && !bPreview) best = m
\*   else if (a === b) best = best
\*   else if (b < a) best = m
EarlierTieBreak(fa, fb) ==
    IF fa.preview /\ ~fb.preview THEN TRUE
    ELSE IF fa.key = fb.key THEN FALSE
    ELSE StrLess(fb.key, fa.key)

\* One iteration of the earlier loop; bestScore is NEGATIVE_INFINITY exactly
\* while best is null, and every score is greater than that.
EarlierLoopBody(r, m, t) ==
    IF r.best = NoModel \/ EarlierFacts(m, t).score > r.bestScore
    THEN [best |-> m, bestScore |-> EarlierFacts(m, t).score]
    ELSE IF EarlierFacts(m, t).score = r.bestScore
              /\ EarlierTieBreak(EarlierFacts(r.best, t), EarlierFacts(m, t))
    THEN [best |-> m, bestScore |-> r.bestScore]
    ELSE r

RECURSIVE EarlierLoop(_, _, _)
EarlierLoop(pool, t, k) ==
    IF k = 0 THEN [best |-> NoModel, bestScore |-> 0]
    ELSE EarlierLoopBody(EarlierLoop(pool, t, k - 1), pool[k], t)

\* resolveBestAvailable of the earlier variant on a non-empty pool.
resolveBestAvailableEarlier(pool, t) ==
    ReturnValue(EarlierLoop(pool, t, Len(pool)).best, pool)

InitEarlier ==
    /\ oldAvailable = <<>>
    /\ oldTier = "complex"
    /\ oldPc = "idle"
    /\ oldBest = NoModel
    /\ SelIdle
    /\ VerIdle
    /\ CmpIdle
    /\ NameIdle
    /\ ReadIdle
    /\ ParseIdle
    /\ TierIdle
    /\ HookIdle
    /\ SpinIdle
    /\ FetchIdle

\* selectSubagentModel has estimated a tier and calls resolveBestAvailable.
EarlierEnter ==
    /\ oldPc = "idle"
    /\ oldAvailable' \in Pools
    /\ oldTier' \in ModelTier
    /\ oldPc' = "call"
    /\ oldBest' = NoModel
    /\ UNCHANGED notEarlierVars

\* resolveBestAvailable(ctx, tier) of the earlier variant: throws on an
\* empty registry, returns the best model otherwise.
EarlierResolve ==
    /\ oldPc = "call"
    /\ IF Len(oldAvailable) = 0
       THEN oldPc' = "threw" /\ oldBest' = NoModel
       ELSE oldPc' = "done" /\ oldBest' = resolveBestAvailableEarlier(oldAvailable, oldTier)
    /\ UNCHANGED <<oldAvailable, oldTier>>
    /\ UNCHANGED notEarlierVars

\* The call is over.
EarlierLeave ==
    /\ oldPc \in {"done", "threw"}
    /\ oldAvailable' = <<>>
    /\ oldTier' = "complex"
    /\ oldPc' = "idle"
    /\ oldBest' = NoModel
    /\ UNCHANGED notEarlierVars

NextEarlier == EarlierEnter \/ EarlierResolve \/ EarlierLeave

SpecEarlier == InitEarlier /\ [][NextEarlier]_vars

-----------------------------------------------------------------------------
(* Properties of the two variants (checked under SpecEarlier)              *)

\* The corrected variant's choice from the same registry and tier.
CorrectedChoice == resolveBestAvailable(oldAvailable, oldTier)

\* Some candidate matches the highest-priority pattern of the corrected list.
TopPatternAvailable ==
    \E k \in 1..Len(oldAvailable) : Facts(oldAvailable[k], oldTier).match.idx = 0

\* C25: the earlier variant returns a candidate whose summed score no other
\* candidate exceeds, so that several lower-priority matches can beat one
\* highest-priority match; the corrected variant, given the same registry
\* and tier, returns a candidate matching the highest-priority pattern
\* whenever the registry holds one.
SumOutranksBestMatch ==
    oldPc = "done" =>
        /\ \A k \in 1..Len(oldAvailable) :
               EarlierFacts(oldAvailable[k], oldTier).score
                   <= EarlierFacts(oldBest, oldTier).score
        /\ TopPatternAvailable => Facts(CorrectedChoice, oldTier).match.idx = 0

\* claude-3-opus matches only the first pattern (100); "Gemini-Pro GPT - 5"
\* matches the second and third (90 + 80) and is what the earlier variant
\* returns, while the corrected variant returns claude-3-opus.
SumOutranksBestMatchWitness ==
    /\ oldPc = "done"
    /\ oldTier = "complex"
    /\ oldAvailable = << Model("anthropic", "claude-3-opus-20240229"),
                         Model("openrouter", "Gemini-Pro GPT - 5") >>
    /\ EarlierFacts(oldAvailable[1], oldTier).hits = {0}
    /\ EarlierFacts(oldAvailable[1], oldTier).score = 100
    /\ EarlierFacts(oldAvailable[2], oldTier).hits = {1, 2}
    /\ EarlierFacts(oldAvailable[2], oldTier).score = 170
    /\ oldBest = oldAvailable[2]
    /\ CorrectedChoice = oldAvailable[1]

-----------------------------------------------------------------------------
(* Tier estimation (SpecTier)                                              *)

SubagentName == {"oracle", "reviewer", "lookout", "jester"}

ShortLimit == 200     \* t.length < 200
LargeLimit == 2000    \* t.length > 2000

\* needles.some(n => text.includes(n))
includesAny(text, needles) == \E k \in 1..Len(needles) : Occurs(text, needles[k])

OracleKeywords ==
    << "architecture", "design", "refactor", "debug", "root cause", "race condition",
       "performance", "optimize", "threat model", "security", "plan", "migration" >>

ReviewerKeywords ==
    << "security", "vulnerability", "auth", "permission", "sqli", "xss", "csrf", "rce",
       "perf", "performance", "latency", "memory", "leak", "concurrency" >>

DiffKeywords == << "files changed", "diff", "patch" >>

LookoutKeywords ==
    << "explain", "how does", "walk me through", "trace", "data flow", "control flow",
       "end-to-end" >>

\* estimateTier once the message is lower-cased to t
EstimateLowered(subagent, t) ==
    IF subagent = "jester" THEN "simple"
    ELSE IF subagent = "oracle"
         THEN (IF includesAny(t, OracleKeywords) THEN "complex"
               ELSE IF Len(t) < ShortLimit THEN "standard" ELSE "complex")
    ELSE IF subagent = "reviewer"
         THEN (IF includesAny(t, ReviewerKeywords) THEN "complex"
               ELSE IF includesAny(t, DiffKeywords) /\ Len(t) > LargeLimit THEN "complex"
               ELSE "standard")
    ELSE IF subagent = "lookout"
         THEN (IF includesAny(t, LookoutKeywords) THEN "standard" ELSE "simple")
    ELSE "standard"

\* estimateTier(subagent, userMessage) of the selector
estimateTier(subagent, userMessage) == EstimateLowered(subagent, toLowerCase(userMessage))

\* Mutant of estimateOracleTier: the length test inclusive of the limit.
OracleLoweredInclusive(t) ==
    IF includesAny(t, OracleKeywords) THEN "complex"
    ELSE IF Len(t) <= ShortLimit THEN "standard" ELSE "complex"

\* estimateOracleTier once the task is lower-cased to t
OracleLowered(t) ==
    IF includesAny(t, OracleKeywords) THEN "complex"
    ELSE IF Len(t) < ShortLimit THEN "standard" ELSE "complex"

\* estimateOracleTier(task) of the oracle tool
estimateOracleTier(task) == OracleLowered(toLowerCase(task))

\* n filler characters.
RECURSIVE Filler(_)
Filler(n) ==
    IF n <= 0 THEN ""
    ELSE IF n = 1 THEN "z"
    ELSE Filler(n \div 2) \o Filler(n - (n \div 2))

\* The message that starts with head and has n characters (head itself when
\* it is longer).
PadTo(head, n) == head \o Filler(n - Len(head))

MessageHeads ==
    { "", "Fix the typo in the README", "an EXPLANATION of the config",
      "REFACTOR the parser", "Find the Root Cause", "Review this DIFF",
      "check the auth flow", "3 Files Changed", "Explain how the cache works",
      "trace the request end-to-end", "tell a joke about security" }

MessageLengths == {0, ShortLimit - 1, ShortLimit, ShortLimit + 1, LargeLimit, LargeLimit + 1}

Messages == {PadTo(head, n) : head \in MessageHeads, n \in MessageLengths}

TierFunctions == {"estimateTier", "estimateOracleTier"}

InitTier ==
    /\ etFn = "none"
    /\ etSubagent = "none"
    /\ etMessage = ""
    /\ etPc = "idle"
    /\ etTier = "none"
    /\ SelIdle
    /\ VerIdle
    /\ CmpIdle
    /\ NameIdle
    /\ ReadIdle
    /\ ParseIdle
    /\ EarlierIdle
    /\ HookIdle
    /\ SpinIdle
    /\ FetchIdle

\* selectSubagentModel calls estimateTier for some subagent and message, or
\* the oracle tool calls estimateOracleTier for its task.
TierEnter ==
    /\ etPc = "idle"
    /\ etFn' \in TierFunctions
    /\ etSubagent' \in (IF etFn' = "estimateOracleTier" THEN {"oracle"} ELSE SubagentName)
    /\ etMessage' \in Messages
    /\ etPc' = "call"
    /\ etTier' = "none"
    /\ UNCHANGED notTierVars

\* The function runs and returns its tier.
TierEstimate ==
    /\ etPc = "call"
    /\ etTier' = (IF etFn = "estimateOracleTier" THEN estimateOracleTier(etMessage)
                  ELSE estimateTier(etSubagent, etMessage))
    /\ etPc' = "done"
    /\ UNCHANGED <<etFn, etSubagent, etMessage>>
    /\ UNCHANGED notTierVars

\* The caller goes on with the tier.
TierLeave ==
    /\ etPc = "done"
    /\ etFn' = "none"
    /\ etSubagent' = "none"
    /\ etMessage' = ""
    /\ etPc' = "idle"
    /\ etTier' = "none"
    /\ UNCHANGED notTierVars

NextTier == TierEnter \/ TierEstimate \/ TierLeave

SpecTier == InitTier /\ [][NextTier]_vars

-----------------------------------------------------------------------------
(* Properties of tier estimation (checked under SpecTier)                  *)

\* The message holds one of the oracle's complexity keywords, in any case.
HasComplexityKeyword(msg) ==
    \E k \in 1..Len(OracleKeywords) : Includes(msg, OracleKeywords[k])

\* C26: jester is always simple; lookout is simple or standard; oracle and
\* reviewer are standard or complex; and an oracle message without any
\* complexity keyword is standard exactly when it has fewer than 200
\* characters.
TierBySubagent ==
    etPc = "done" =>
        /\ etSubagent = "jester" => etTier = "simple"
        /\ etSubagent = "lookout" => etTier \in {"simple", "standard"}
        /\ etSubagent \in {"oracle", "reviewer"} => etTier \in {"standard", "complex"}
        /\ (etSubagent = "oracle" /\ ~HasComplexityKeyword(etMessage)) =>
               (etTier = "standard" <=> Len(etMessage) < 200)

\* An oracle task of exactly 200 characters without a keyword: complex.
TierBySubagentWitness ==
    /\ etPc = "done"
    /\ etFn = "estimateOracleTier"
    /\ etSubagent = "oracle"
    /\ etMessage = PadTo("Fix the typo in the README", 200)
    /\ Len(etMessage) = 200
    /\ ~HasComplexityKeyword(etMessage)
    /\ etTier = "complex"

-----------------------------------------------------------------------------
(* The auto-naming hook of setupSessionNameHook (SpecHook)                 *)

MaxPending == 2    \* most turn_end handlers suspended at their await

\* What the hook's steps leave alone: the command's locals and the other
\* components.
commandLocals == <<llm, cmdArgs, cmdPc, cmdText, nameBefore>>

\* The names a user gives with /ad-name <text>.
ManualNames == {"my session"}

\* What await generateTitle(firstUserText, ctx) can come to for a text.
TitleOutcomes(text) == {generateTitle(text, l) : l \in LlmCases}

\* seq without its k-th element.
RemoveAt(seq, k) == SubSeq(seq, 1, k - 1) \o SubSeq(seq, k + 1, Len(seq))

InitHook ==
    /\ sessionName = Undefined
    /\ entries = <<>>
    /\ llm = NoLlm
    /\ cmdArgs = ""
    /\ cmdPc = "off"
    /\ cmdText = NullString
    /\ nameBefore = Undefined
    /\ notice = NoNotice
    /\ hasAutoNamed = FALSE
    /\ hookPending = <<>>
    /\ genStarted = 0
    /\ settled = FALSE
    /\ hookSetOver = Undefined
    /\ SelIdle
    /\ VerIdle
    /\ CmpIdle
    /\ ReadIdle
    /\ ParseIdle
    /\ EarlierIdle
    /\ TierIdle
    /\ SpinIdle
    /\ FetchIdle

\* pi.on("session_start", ...): the flag is cleared.  The session now current
\* has its own name and entries; handlers suspended at their await stay
\* suspended.
HookSessionStart ==
    /\ hasAutoNamed' = FALSE
    /\ sessionName' \in InitialNames
    /\ entries' \in SessionEntries
    /\ genStarted' = 0
    /\ settled' = FALSE
    /\ UNCHANGED <<hookPending, hookSetOver, notice>>
    /\ UNCHANGED <<commandLocals, notNameNorHookVars>>

\* pi.on("session_switch", ...): the same body.
HookSessionSwitch ==
    /\ hasAutoNamed' = FALSE
    /\ sessionName' \in InitialNames
    /\ entries' \in SessionEntries
    /\ genStarted' = 0
    /\ settled' = FALSE
    /\ UNCHANGED <<hookPending, hookSetOver, notice>>
    /\ UNCHANGED <<commandLocals, notNameNorHookVars>>

\* pi.on("turn_end", ...) up to its return or to await generateTitle(...).
HookTurnEnd ==
    /\ Len(hookPending) < MaxPending
    /\ IF hasAutoNamed
       THEN UNCHANGED <<hasAutoNamed, hookPending, genStarted, settled>>
       ELSE IF Truthy(sessionName)
       THEN /\ hasAutoNamed' = TRUE
            /\ settled' = TRUE
            /\ UNCHANGED <<hookPending, genStarted>>
       ELSE IF NoUserText(getFirstUserText(entries))
       THEN UNCHANGED <<hasAutoNamed, hookPending, genStarted, settled>>
       ELSE /\ \E r \in TitleOutcomes(getFirstUserText(entries)) :
                   hookPending' = Append(hookPending, r)
            /\ genStarted' = genStarted + 1
            /\ UNCHANGED <<hasAutoNamed, settled>>
    /\ UNCHANGED <<sessionName, entries, notice, hookSetOver>>
    /\ UNCHANGED <<commandLocals, notNameNorHookVars>>

\* The try/catch of the handler once await generateTitle(...) has settled as r.
HookTitled(r) ==
    IF r.threw THEN
        /\ notice' = Notice("Title generation error: <message>", "error")
        /\ UNCHANGED <<sessionName, hookSetOver>>
    ELSE IF Truthy(r.title) THEN
        /\ hookSetOver' = sessionName
        /\ sessionName' = r.title
        /\ notice' = Notice("Session: " \o r.title, "info")
    ELSE
        /\ notice' = Notice("Failed to generate session title", "error")
        /\ UNCHANGED <<sessionName, hookSetOver>>

\* A suspended turn_end handler resumes after its await and runs to its end.
HookResume ==
    \E k \in 1..Len(hookPending) :
        /\ HookTitled(hookPending[k])
        /\ hookPending' = RemoveAt(hookPending, k)
        /\ hasAutoNamed' = TRUE
        /\ settled' = TRUE
        /\ UNCHANGED <<entries, genStarted>>
        /\ UNCHANGED <<commandLocals, notNameNorHookVars>>

\* The user runs /ad-name <text>: the handler sets the name and returns.
HookManualName ==
    /\ \E name \in ManualNames :
           /\ sessionName' = name
           /\ notice' = Notice("Session: " \o name, "info")
    /\ UNCHANGED <<entries, hookVars>>
    /\ UNCHANGED <<commandLocals, notNameNorHookVars>>

NextHook ==
    \/ HookSessionStart
    \/ HookSessionSwitch
    \/ HookTurnEnd
    \/ HookResume
    \/ HookManualName

SpecHook == InitHook /\ [][NextHook]_vars

-----------------------------------------------------------------------------
(* Properties of the auto-naming hook (checked under SpecHook)             *)

\* C27: between two resets at most one title generation is started, and once
\* a turn_end handler has finished an attempt or found a name the flag that
\* makes later turn_end handlers return at once is set.
OncePerSession ==
    /\ genStarted <= 1
    /\ settled => hasAutoNamed

\* C28: whenever the hook calls setSessionName the session has no name.
NeverOverwrites == hookSetOver = Undefined

-----------------------------------------------------------------------------
(* The spinner of the subagent tools (SpecSpinner)                         *)

MaxFrames == 3    \* most spinner ticks in one execution

SubagentTools == {"oracle", "reviewer"}

\* What an argument record holds: the reviewer reads diff, the oracle files.
ToolArgs(tool) ==
    IF tool = "oracle" THEN {[diff |-> FALSE, files |-> f] : f \in BOOLEAN}
    ELSE {[diff |-> d, files |-> FALSE] : d \in BOOLEAN}

Registries == {<<>>, <<Registry[1]>>, <<Registry[5], Registry[1]>>}

\* How await executeSubagent(...) can settle.
SubagentOutcomes == {"content", "aborted", "error", "allFailed", "throws"}

\* Mutant of clearInterval: the interval is left running.
clearIntervalNever(active) == active

\* clearInterval(spinnerInterval) of the finally block
clearInterval(active) == FALSE

\* How execute settles once executeSubagent has settled as `outcome`: the
\* oracle throws on result.error, the reviewer returns an error result, also
\* when every tool call failed.
SettledAs(tool, outcome) ==
    CASE outcome = "throws" -> "threw"
      [] outcome = "aborted" -> "aborted"
      [] outcome = "error" -> (IF tool = "oracle" THEN "threw" ELSE "error")
      [] outcome = "allFailed" -> (IF tool = "oracle" THEN "result" ELSE "error")
      [] outcome = "content" -> "result"

InitSpinner ==
    /\ spTool = "none"
    /\ spArgs = NoArgs
    /\ spAvailable = <<>>
    /\ spPc = "idle"
    /\ spInterval = FALSE
    /\ spinnerFrame = 0
    /\ spRunning = FALSE
    /\ spStarted = FALSE
    /\ spOutcome = "none"
    /\ spLate = FALSE
    /\ SelIdle
    /\ VerIdle
    /\ CmpIdle
    /\ NameIdle
    /\ ReadIdle
    /\ ParseIdle
    /\ EarlierIdle
    /\ TierIdle
    /\ HookIdle
    /\ FetchIdle

\* The agent calls a subagent tool.
SpinEnter ==
    /\ spPc = "idle"
    /\ spTool' \in SubagentTools
    /\ spArgs' \in ToolArgs(spTool')
    /\ spAvailable' \in Registries
    /\ spPc' = "run"
    /\ UNCHANGED <<spInterval, spinnerFrame, spRunning, spStarted, spOutcome, spLate>>
    /\ UNCHANGED notSpinVars

\* execute up to its first await or to its end: the reviewer returns an
\* error result without a diff; otherwise the interval is set and, inside
\* try, selectSubagentModel throws on an empty registry, which runs finally.
SpinExecute ==
    /\ spPc = "run"
    /\ IF spTool = "reviewer" /\ ~spArgs.diff
       THEN /\ spOutcome' = "error"
            /\ spPc' = "settled"
            /\ UNCHANGED <<spInterval, spStarted>>
       ELSE /\ spStarted' = TRUE
            /\ IF Len(spAvailable) = 0
               THEN /\ spInterval' = clearInterval(TRUE)
                    /\ spOutcome' = "no models"
                    /\ spPc' = "settled"
               ELSE /\ spInterval' = TRUE
                    /\ spPc' = (IF spTool = "oracle" /\ spArgs.files
                                THEN "files" ELSE "subagent")
                    /\ UNCHANGED spOutcome
    /\ UNCHANGED <<spTool, spArgs, spAvailable, spinnerFrame, spRunning, spLate>>
    /\ UNCHANGED notSpinVars

\* await formatFilesForContext(files, ctx.cwd) settles; it catches what
\* reading a file throws.
SpinFiles ==
    /\ spPc = "files"
    /\ spPc' = "subagent"
    /\ UNCHANGED <<spTool, spArgs, spAvailable, spInterval, spinnerFrame, spRunning,
                   spStarted, spOutcome, spLate>>
    /\ UNCHANGED notSpinVars

\* onToolUpdate of the reviewer: currentToolCalls = toolCalls.
SpinToolUpdate ==
    /\ spPc = "subagent"
    /\ spTool = "reviewer"
    /\ spRunning' = ~spRunning
    /\ UNCHANGED <<spTool, spArgs, spAvailable, spPc, spInterval, spinnerFrame,
                   spStarted, spOutcome, spLate>>
    /\ UNCHANGED notSpinVars

\* The interval's callback: spinnerFrame++ and onUpdate, which the reviewer
\* calls only while a tool call is running.
SpinTick ==
    /\ spInterval
    /\ spinnerFrame < MaxFrames
    /\ spinnerFrame' = spinnerFrame + 1
    /\ spLate' = (spLate \/ (spPc = "settled" /\ (spTool = "oracle" \/ spRunning)))
    /\ UNCHANGED <<spTool, spArgs, spAvailable, spPc, spInterval, spRunning,
                   spStarted, spOutcome>>
    /\ UNCHANGED notSpinVars

\* await executeSubagent(...) settles and execute runs to its end, through
\* finally.
SpinSettle ==
    /\ spPc = "subagent"
    /\ \E outcome \in SubagentOutcomes : spOutcome' = SettledAs(spTool, outcome)
    /\ spInterval' = clearInterval(spInterval)
    /\ spPc' = "settled"
    /\ UNCHANGED <<spTool, spArgs, spAvailable, spinnerFrame, spRunning, spStarted,
                   spLate>>
    /\ UNCHANGED notSpinVars

\* The agent takes the result; the next call starts afresh.
SpinLeave ==
    /\ spPc = "settled"
    /\ spTool' = "none"
    /\ spArgs' = NoArgs
    /\ spAvailable' = <<>>
    /\ spPc' = "idle"
    /\ spinnerFrame' = 0
    /\ spRunning' = FALSE
    /\ spStarted' = FALSE
    /\ spOutcome' = "none"
    /\ UNCHANGED <<spInterval, spLate>>
    /\ UNCHANGED notSpinVars

NextSpinner ==
    \/ SpinEnter
    \/ SpinExecute
    \/ SpinFiles
    \/ SpinToolUpdate
    \/ SpinTick
    \/ SpinSettle
    \/ SpinLeave

SpecSpinner == InitSpinner /\ [][NextSpinner]_vars

-----------------------------------------------------------------------------
(* Properties of the spinner (checked under SpecSpinner)                   *)

\* C29: once execute has settled, on whatever path, its spinner interval is
\* cleared, and no spinner-driven onUpdate is ever emitted after execute
\* settled.
SpinnerStopped ==
    /\ spPc \in {"settled", "idle"} => ~spInterval
    /\ ~spLate

\* The subagent run threw after the spinner had ticked: the interval that
\* this execution set is cleared.
SpinnerStoppedWitness ==
    /\ spPc = "settled"
    /\ spStarted
    /\ spinnerFrame > 0
    /\ spOutcome = "threw"
    /\ ~spInterval

-----------------------------------------------------------------------------
(* web_fetch: fetchWithTimeout and execute (SpecFetch)                     *)

DefaultTimeoutMs == 30000    \* timeoutMs = 30_000
ShortTimeoutMs == 1000       \* a timeoutMs the caller passes

\* args.timeoutMs
TimeoutArgs == {NoTimeoutArg, [given |-> TRUE, ms |-> ShortTimeoutMs]}

\* The moments, in milliseconds since the start, at which something happens.
TimePoints ==
    {0, ShortTimeoutMs - 1, ShortTimeoutMs, ShortTimeoutMs + 1,
     DefaultTimeoutMs, DefaultTimeoutMs + 1}

\* const { timeoutMs = 30_000 } = args
TimeoutOf(arg) == IF arg.given THEN arg.ms ELSE DefaultTimeoutMs

InitFetch ==
    /\ wfArg = NoTimeoutArg
    /\ wfTimeoutMs = 0
    /\ wfPc = "idle"
    /\ wfClock = 0
    /\ wfArmed = FALSE
    /\ wfListener = FALSE
    /\ wfSignalAborted = FALSE
    /\ wfAborted = FALSE
    /\ wfOk = FALSE
    /\ wfResult = "none"
    /\ SelIdle
    /\ VerIdle
    /\ CmpIdle
    /\ NameIdle
    /\ ReadIdle
    /\ ParseIdle
    /\ EarlierIdle
    /\ TierIdle
    /\ HookIdle
    /\ SpinIdle

\* The agent calls web_fetch with a signal that is not aborted.
FetchEnter ==
    /\ wfPc = "idle"
    /\ wfArg' \in TimeoutArgs
    /\ wfPc' = "run"
    /\ UNCHANGED <<wfTimeoutMs, wfClock, wfArmed, wfListener, wfSignalAborted,
                   wfAborted, wfOk, wfResult>>
    /\ UNCHANGED notFetchVars

\* execute and fetchWithTimeout up to await fetch(...): the timeout is set,
\* onAbort is registered, the request is sent with controller.signal.
FetchExecute ==
    /\ wfPc = "run"
    /\ wfTimeoutMs' = TimeoutOf(wfArg)
    /\ wfArmed' = TRUE
    /\ wfListener' = TRUE
    /\ wfPc' = "headers"
    /\ UNCHANGED <<wfArg, wfClock, wfSignalAborted, wfAborted, wfOk, wfResult>>
    /\ UNCHANGED notFetchVars

\* Time passes while execute waits; a pending timeout fires before time
\* passes its deadline.
FetchAdvance ==
    /\ wfPc \in {"headers", "body"}
    /\ \E t \in TimePoints :
           /\ t > wfClock
           /\ wfArmed => t <= wfTimeoutMs
           /\ wfClock' = t
    /\ UNCHANGED <<wfArg, wfTimeoutMs, wfPc, wfArmed, wfListener, wfSignalAborted,
                   wfAborted, wfOk, wfResult>>
    /\ UNCHANGED notFetchVars

\* setTimeout(() => controller.abort(), timeoutMs) fires.
FetchTimeout ==
    /\ wfArmed
    /\ wfClock >= wfTimeoutMs
    /\ wfArmed' = FALSE
    /\ wfAborted' = TRUE
    /\ UNCHANGED <<wfArg, wfTimeoutMs, wfPc, wfClock, wfListener, wfSignalAborted,
                   wfOk, wfResult>>
    /\ UNCHANGED notFetchVars

\* The caller aborts its signal; onAbort runs when it is still registered.
FetchSignalAbort ==
    /\ wfPc \in {"headers", "body"}
    /\ ~wfSignalAborted
    /\ wfSignalAborted' = TRUE
    /\ wfAborted' = (wfAborted \/ wfListener)
    /\ wfListener' = FALSE
    /\ UNCHANGED <<wfArg, wfTimeoutMs, wfPc, wfClock, wfArmed, wfOk, wfResult>>
    /\ UNCHANGED notFetchVars

\* fetch resolves with the response once its headers are in; finally clears
\* the timeout and removes onAbort; execute goes on to await response.text().
FetchHeaders ==
    /\ wfPc = "headers"
    /\ ~wfAborted
    /\ wfOk' \in BOOLEAN
    /\ wfArmed' = FALSE
    /\ wfListener' = FALSE
    /\ wfPc' = "body"
    /\ UNCHANGED <<wfArg, wfTimeoutMs, wfClock, wfSignalAborted, wfAborted, wfResult>>
    /\ UNCHANGED notFetchVars

\* fetch rejects, because the controller aborted or the network failed;
\* finally runs and the catch of execute returns { details: { error } }.
FetchRejects ==
    /\ wfPc = "headers"
    /\ wfArmed' = FALSE
    /\ wfListener' = FALSE
    /\ wfResult' = "error"
    /\ wfPc' = "done"
    /\ UNCHANGED <<wfArg, wfTimeoutMs, wfClock, wfSignalAborted, wfAborted, wfOk>>
    /\ UNCHANGED notFetchVars

\* response.text() settles: the body is in, or reading it failed.  For a
\* response that is not ok the result carries error: `HTTP ${status} ...`
\* either way.
FetchBody ==
    /\ wfPc = "body"
    /\ \E read \in BOOLEAN :
           wfResult' = (IF ~wfOk THEN "http error"
                        ELSE IF read THEN "content" ELSE "error")
    /\ wfPc' = "done"
    /\ UNCHANGED <<wfArg, wfTimeoutMs, wfClock, wfArmed, wfListener, wfSignalAborted,
                   wfAborted, wfOk>>
    /\ UNCHANGED notFetchVars

\* The agent takes the result.
FetchLeave ==
    /\ wfPc = "done"
    /\ wfArg' = NoTimeoutArg
    /\ wfTimeoutMs' = 0
    /\ wfPc' = "idle"
    /\ wfClock' = 0
    /\ wfSignalAborted' = FALSE
    /\ wfAborted' = FALSE
    /\ wfOk' = FALSE
    /\ wfResult' = "none"
    /\ UNCHANGED <<wfArmed, wfListener>>
    /\ UNCHANGED notFetchVars

NextFetch ==
    \/ FetchEnter
    \/ FetchExecute
    \/ FetchAdvance
    \/ FetchTimeout
    \/ FetchSignalAbort
    \/ FetchHeaders
    \/ FetchRejects
    \/ FetchBody
    \/ FetchLeave

SpecFetch == InitFetch /\ [][NextFetch]_vars

-----------------------------------------------------------------------------
(* Properties of web_fetch (checked under SpecFetch)                       *)

\* execute is waiting for the response or for its body.
FetchWaiting == wfPc \in {"headers", "body"}

\* C30: when timeoutMs milliseconds have passed and the response, body
\* included, is not fully received, the request is aborted; an abort of the
\* caller's signal aborts it too; and a call whose request was aborted
\* returns a result with details.error in place of the content.
TimeoutCoversResponse ==
    /\ (FetchWaiting /\ wfClock > wfTimeoutMs) => wfAborted
    /\ (FetchWaiting /\ wfSignalAborted) => wfAborted
    /\ (wfPc = "done" /\ wfClock > wfTimeoutMs) => wfResult # "content"

====
